---- MODULE Spec2Model ----
(***************************************************************************)
(* A model of the web-push library: the message builder, the payload       *)
(* encryptor's size check and header generation, the request builder, the  *)
(* response classifier and the clients' send.                              *)
(*                                                                         *)
(* Representation.  A Rust String or &str whose characters the code        *)
(* inspects (a topic, a Retry-After value, a base64url key) is a sequence  *)
(* of character codes.  A string the code only formats or compares (a      *)
(* header value, a token) is a TLA+ string; ToStr converts the former into *)
(* the latter.  A Vec<u8> the code looks into is a sequence of 0..255; a   *)
(* Vec<u8> it only measures and forwards is a record [len, id].            *)
(***************************************************************************)
EXTENDS Integers, Sequences, FiniteSets, TLC

VARIABLES
    \* ---- parse_response applied to one (status, body) ------------------
    cl_status,      \* the StatusCode handed to parse_response
    cl_body,        \* the body handed to parse_response
    cl_out,         \* Pending, or the Result parse_response returned
    \* ---- one call of WebPushClient::send ------------------------------
    client,         \* the client whose send runs: "hyper", "hyper_rustls", "isahc"
    message,        \* the WebPushMessage passed to send
    pc,             \* "start", "requesting", "reading" or "done"
    wire,           \* the requests handed to the transport, in order
    now,            \* the clock, in seconds since the Unix epoch
    resp,           \* the response the transport returned
    stream,         \* the chunks of the response body not read yet
    body_len,       \* body.len(): the bytes accumulated so far
    retry_after,    \* the Option<Duration> read from the Retry-After header
    parsed,         \* Pending, or what parse_response returned to send
    result,         \* Pending, or what send returned
    \* ---- one HttpEce value and the calls made on it -------------------
    ece,            \* the HttpEce: encoding, peer keys, vapid_signature
    enc_content,    \* the plaintext passed to encrypt
    rng,            \* what the system rng yields when it is asked
    rng_draws,      \* the uses of the rng so far, in order
    enc_pc,         \* "start", or the call that was made
    enc_out,        \* NoResult, or the Result encrypt returned
    hdr_out,        \* the header list a headers call returned
    \* ---- one WebPushMessageBuilder -------------------------------------
    subscription_info,  \* the SubscriptionInfo the builder borrows
    builder,        \* the builder's fields
    last,           \* the argument of the last call of each setter
    b_pc,           \* "new", "set", "built" or "requested"
    b_crypto,       \* the crypto calls build made, in order
    built,          \* NoResult, or the Result build returned
    request,        \* the request build_request made of the built message
    \* ---- build_request applied to one message --------------------------
    rq_msg,         \* the WebPushMessage handed to build_request
    rq_out,         \* NoRequest, or the request it returned
    \* ---- successive encrypt calls, one system rng ----------------------
    cur_ece,        \* the HttpEce value the next encrypt is called on
    system_random,  \* how many key pairs and salts the rng has yielded so far
    encrypted,      \* the encrypt calls made, in order: value, plaintext, rng, result
    \* ---- the VAPID signature builders ---------------------------------
    partial,        \* the Result of from_pem_no_sub or from_der_no_sub
    sig_builder,    \* the VapidSignatureBuilder a clone of partial was made into
    utc_now,        \* OffsetDateTime::now_utc(), in seconds since the Unix epoch
    signed,         \* the build() of the last clone: the builder, the time, (r, s), the Result
    auth_keys,      \* the auth_k of every signature built so far
    \* ---- RetryAfter::from_str applied to header values ------------------
    system_time,    \* SystemTime::now(), in seconds since the Unix epoch
    retry_call,     \* the last call of from_str: its argument, its time, its result
    \* ---- several calls of send on one client ------------------------------
    shared,         \* the client the calls share, by reference or as clones
    in_flight,      \* the requests handed to the shared client, in order, with their callers
    calls,          \* the locals of each call of send at its suspension point
    delivered,      \* the response the transport gave each call, and when
    wall_clock,     \* the clock the calls read
    \* ---- read_pem applied to one PEM input --------------------------------
    pem_input,      \* the input: whether it is well-formed PEM, and its sections in order
    pem_reader,     \* how the key readers of the libraries treat several sections
    pem_out,        \* NoResult, or the Result read_pem returned
    \* ---- one EceNonce and the calls made on it -----------------------------
    ece_nonce,      \* the EceNonce: [used, nonce]
    nonce_log       \* the calls so far, in order: fill with its argument, advance with its result

classifyVars == <<cl_status, cl_body, cl_out>>

sendVars == <<client, message, pc, wire, now, resp, stream, body_len, retry_after,
              parsed, result>>

encryptVars == <<ece, enc_content, rng, rng_draws, enc_pc, enc_out, hdr_out>>

builderVars == <<subscription_info, builder, last, b_pc, b_crypto, built, request>>

requestVars == <<rq_msg, rq_out>>

sessionVars == <<cur_ece, system_random, encrypted>>

vapidVars == <<partial, sig_builder, utc_now, signed, auth_keys>>

retryVars == <<system_time, retry_call>>

concurrentVars == <<shared, in_flight, calls, delivered, wall_clock>>

pemVars == <<pem_input, pem_reader, pem_out>>

nonceVars == <<ece_nonce, nonce_log>>

vars == <<classifyVars, sendVars, encryptVars, builderVars, requestVars, sessionVars,
          vapidVars, retryVars, concurrentVars, pemVars, nonceVars>>

(***************************************************************************)
(* Option<T>                                                               *)
(***************************************************************************)
None == [some |-> FALSE]
Some(x) == [some |-> TRUE, v |-> x]

(***************************************************************************)
(* Text helpers                                                            *)
(***************************************************************************)
\* The printable ASCII characters, code 32 first (the grave accent, code 96,
\* has no string literal and shows as "?").
AsciiTable ==
    << " ", "!", "\"", "#", "$", "%", "&", "'", "(", ")", "*", "+", ",", "-", ".", "/",
       "0", "1", "2", "3", "4", "5", "6", "7", "8", "9", ":", ";", "<", "=", ">", "?",
       "@", "A", "B", "C", "D", "E", "F", "G", "H", "I", "J", "K", "L", "M", "N", "O",
       "P", "Q", "R", "S", "T", "U", "V", "W", "X", "Y", "Z", "[", "\\", "]", "^", "_",
       "?", "a", "b", "c", "d", "e", "f", "g", "h", "i", "j", "k", "l", "m", "n", "o",
       "p", "q", "r", "s", "t", "u", "v", "w", "x", "y", "z", "{", "|", "}", "~" >>

IsPrintable(c) == c >= 32 /\ c <= 126

\* One character as a string; a character outside printable ASCII shows as "?".
Chr(c) == IF IsPrintable(c) THEN AsciiTable[c - 31] ELSE "?"

RECURSIVE ToStr(_)
\* A sequence of character codes as a string.
ToStr(s) == IF s = <<>> THEN "" ELSE Chr(Head(s)) \o ToStr(Tail(s))

RECURSIVE ToDecimal(_)
\* format!("{}", n) of an unsigned integer.
ToDecimal(n) ==
    IF n < 10 THEN Chr(48 + n) ELSE ToDecimal(n \div 10) \o Chr(48 + (n % 10))

RECURSIVE Rep(_, _)
\* n copies of x.
Rep(x, n) == IF n <= 0 THEN <<>> ELSE <<x>> \o Rep(x, n - 1)

(***************************************************************************)
(* The response classifier (clients/request_builder.rs)                    *)
(***************************************************************************)
ErrorInfo(code, errno, error, msg) ==
    [code |-> code, errno |-> errno, error |-> error, message |-> msg]

NoInfo == [code |-> 0, errno |-> 0, error |-> "", message |-> ""]

\* Result<(), WebPushError>, one shape for every variant; a variant without
\* info carries NoInfo, one without retry_after carries None.
Ok == [kind |-> "Ok", info |-> NoInfo, retry_after |-> None]
Err(kind) == [kind |-> kind, info |-> NoInfo, retry_after |-> None]
ErrWithInfo(kind, info) == [kind |-> kind, info |-> info, retry_after |-> None]
ServerError(ra, info) ==
    [kind |-> "ServerError", info |-> info, retry_after |-> ra]
\* No result yet: the call has not returned.
Pending == [kind |-> "pending", info |-> NoInfo, retry_after |-> None]

\* The ErrorInfo of the request builder's test.
TestErrorInfo == ErrorInfo(400, 103, "FooBar", "No message found")

\* A response body: its byte length and what its bytes are.  form is
\* "error_info_json" (serde_json reads an ErrorInfo from it, json), "utf8"
\* (valid UTF-8 that is no ErrorInfo, text) or "not_utf8".
Body(len, form, json, text) == [len |-> len, form |-> form, json |-> json, text |-> text]

\* serde_json::from_slice::<ErrorInfo>(&body)
serde_json_from_slice(body) ==
    IF body.form = "error_info_json" THEN Some(body.json) ELSE None

\* String::from_utf8(body)
String_from_utf8(body) ==
    IF body.form = "not_utf8" THEN None ELSE Some(body.text)

is_success(status) == status >= 200 /\ status < 300
is_server_error(status) == status >= 500 /\ status < 600

\* response_info with the HTTP status put over the parsed code.
response_info_status_code(response_status, body) ==
    LET from_json == serde_json_from_slice(body)
        utf8 == String_from_utf8(body)
    IN  ErrorInfo(response_status,
                  IF from_json.some THEN from_json.v.errno ELSE 999,
                  IF from_json.some THEN from_json.v.error ELSE "unknown error",
                  IF from_json.some THEN from_json.v.message
                  ELSE IF utf8.some THEN utf8.v ELSE "-")

\* The ErrorInfo parse_response builds for a non-2xx response.
response_info(response_status, body) ==
    LET from_json == serde_json_from_slice(body)
        utf8 == String_from_utf8(body)
    IN  IF from_json.some
        THEN from_json.v
        ELSE ErrorInfo(response_status, 999, "unknown error",
                       IF utf8.some THEN utf8.v ELSE "-")

\* parse_response without its GONE arm.
parse_response_without_gone(response_status, body) ==
    IF is_success(response_status)
    THEN Ok
    ELSE LET info == response_info(response_status, body)
         IN  CASE response_status = 401 -> ErrWithInfo("Unauthorized", info)
               [] response_status = 404 -> ErrWithInfo("EndpointNotFound", info)
               [] response_status = 413 -> Err("PayloadTooLarge")
               [] response_status = 400 -> ErrWithInfo("BadRequest", info)
               [] OTHER -> IF is_server_error(response_status)
                           THEN ServerError(None, info)
                           ELSE ErrWithInfo("Other", info)

parse_response(response_status, body) ==
    IF is_success(response_status)
    THEN Ok
    ELSE LET info == response_info(response_status, body)
         IN  CASE response_status = 401 -> ErrWithInfo("Unauthorized", info)
               [] response_status = 410 -> ErrWithInfo("EndpointNotValid", info)
               [] response_status = 404 -> ErrWithInfo("EndpointNotFound", info)
               [] response_status = 413 -> Err("PayloadTooLarge")
               [] response_status = 400 -> ErrWithInfo("BadRequest", info)
               [] OTHER -> IF is_server_error(response_status)
                           THEN ServerError(None, info)
                           ELSE ErrWithInfo("Other", info)

(***************************************************************************)
(* Messages and the request builder (message.rs, request_builder.rs)       *)
(***************************************************************************)
\* A Vec<u8> the code only measures and forwards: its length and which
\* bytes it holds.
Bytes(len, id) == [len |-> len, id |-> id]

\* The body build_request gives a message without payload: "".into().
EmptyBody == Bytes(0, "")

\* Display for Urgency.
Urgency_to_string(urgency) ==
    CASE urgency = "VeryLow" -> "very-low"
      [] urgency = "Low" -> "low"
      [] urgency = "Normal" -> "normal"
      [] urgency = "High" -> "high"

\* The wire token of a ContentEncoding.
ContentEncoding_to_str(encoding) ==
    CASE encoding = "AesGcm" -> "aesgcm"
      [] encoding = "Aes128Gcm" -> "aes128gcm"

WebPushPayload(content, crypto_headers, content_encoding) ==
    [content |-> content, crypto_headers |-> crypto_headers,
     content_encoding |-> content_encoding]

WebPushMessage(endpoint, ttl, urgency, topic, payload) ==
    [endpoint |-> endpoint, ttl |-> ttl, urgency |-> urgency, topic |-> topic,
     payload |-> payload]

\* payload_headers with the crypto headers put first.
payload_headers_crypto_first(payload) ==
    payload.crypto_headers
    \o << <<"Content-Encoding", ContentEncoding_to_str(payload.content_encoding)>>,
          <<"Content-Length", ToDecimal(payload.content.len)>>,
          <<"Content-Type", "application/octet-stream">> >>

\* The headers build_request adds for a payload.
payload_headers(payload) ==
    << <<"Content-Encoding", ContentEncoding_to_str(payload.content_encoding)>>,
       <<"Content-Length", ToDecimal(payload.content.len)>>,
       <<"Content-Type", "application/octet-stream">> >>
    \o payload.crypto_headers

\* build_request setting Content-Type on a request without payload too.
build_request_always_typed(msg) ==
    LET ttl == << <<"TTL", ToDecimal(msg.ttl)>> >>
        urgency == IF msg.urgency.some
                   THEN << <<"Urgency", Urgency_to_string(msg.urgency.v)>> >>
                   ELSE <<>>
        topic == IF msg.topic.some
                 THEN << <<"Topic", ToStr(msg.topic.v)>> >>
                 ELSE <<>>
    IN  IF msg.payload.some
        THEN [method |-> "POST", uri |-> msg.endpoint,
              headers |-> ttl \o urgency \o topic \o payload_headers(msg.payload.v),
              body |-> msg.payload.v.content]
        ELSE [method |-> "POST", uri |-> msg.endpoint,
              headers |-> ttl \o urgency \o topic
                          \o << <<"Content-Type", "application/octet-stream">> >>,
              body |-> EmptyBody]

build_request(msg) ==
    LET ttl == << <<"TTL", ToDecimal(msg.ttl)>> >>
        urgency == IF msg.urgency.some
                   THEN << <<"Urgency", Urgency_to_string(msg.urgency.v)>> >>
                   ELSE <<>>
        topic == IF msg.topic.some
                 THEN << <<"Topic", ToStr(msg.topic.v)>> >>
                 ELSE <<>>
    IN  IF msg.payload.some
        THEN [method |-> "POST", uri |-> msg.endpoint,
              headers |-> ttl \o urgency \o topic \o payload_headers(msg.payload.v),
              body |-> msg.payload.v.content]
        ELSE [method |-> "POST", uri |-> msg.endpoint,
              headers |-> ttl \o urgency \o topic,
              body |-> EmptyBody]

\* No request: nothing was built yet.
NoRequest == [method |-> "", uri |-> "", headers |-> <<>>, body |-> EmptyBody]

(***************************************************************************)
(* base64 (the base64 crate's encode_config, ct_codecs' decode_to_vec)     *)
(***************************************************************************)
URL_SAFE_NO_PAD == [pad |-> FALSE]
URL_SAFE == [pad |-> TRUE]

\* The URL-safe alphabet: the character code of each 6-bit value.
Base64UrlChar(v) ==
    CASE v < 26 -> 65 + v
      [] v < 52 -> 97 + (v - 26)
      [] v < 62 -> 48 + (v - 52)
      [] v = 62 -> 45
      [] OTHER -> 95

RECURSIVE base64_encode_config(_, _)
\* base64::encode_config(bytes, config), as character codes.
base64_encode_config(bytes, config) ==
    IF bytes = <<>>
    THEN <<>>
    ELSE IF Len(bytes) = 1
    THEN << Base64UrlChar(bytes[1] \div 4), Base64UrlChar((bytes[1] % 4) * 16) >>
         \o (IF config.pad THEN <<61, 61>> ELSE <<>>)
    ELSE IF Len(bytes) = 2
    THEN << Base64UrlChar(bytes[1] \div 4),
            Base64UrlChar((bytes[1] % 4) * 16 + bytes[2] \div 16),
            Base64UrlChar((bytes[2] % 16) * 4) >>
         \o (IF config.pad THEN <<61>> ELSE <<>>)
    ELSE << Base64UrlChar(bytes[1] \div 4),
            Base64UrlChar((bytes[1] % 4) * 16 + bytes[2] \div 16),
            Base64UrlChar((bytes[2] % 16) * 4 + bytes[3] \div 64),
            Base64UrlChar(bytes[3] % 64) >>
         \o base64_encode_config(SubSeq(bytes, 4, Len(bytes)), config)

\* The 6-bit value of a character of the URL-safe alphabet, -1 for any other.
Base64UrlValue(c) ==
    CASE c >= 65 /\ c <= 90 -> c - 65
      [] c >= 97 /\ c <= 122 -> c - 97 + 26
      [] c >= 48 /\ c <= 57 -> c - 48 + 52
      [] c = 45 -> 62
      [] c = 95 -> 63
      [] OTHER -> -1

RECURSIVE Base64UrlDecodeGroups(_)
\* The bytes of a string of alphabet characters whose length is not 1 mod 4.
Base64UrlDecodeGroups(s) ==
    LET v(i) == Base64UrlValue(s[i])
    IN  IF Len(s) < 2
        THEN <<>>
        ELSE IF Len(s) = 2
        THEN << v(1) * 4 + v(2) \div 16 >>
        ELSE IF Len(s) = 3
        THEN << v(1) * 4 + v(2) \div 16, (v(2) % 16) * 16 + v(3) \div 4 >>
        ELSE << v(1) * 4 + v(2) \div 16, (v(2) % 16) * 16 + v(3) \div 4,
                (v(3) % 4) * 64 + v(4) >>
             \o Base64UrlDecodeGroups(SubSeq(s, 5, Len(s)))

\* Base64UrlSafeNoPadding::decode_to_vec(s, None): None for a character
\* outside the alphabet ('=' included) and for a length no encoding has.
Base64UrlSafeNoPadding_decode_to_vec(s) ==
    IF (\E i \in 1..Len(s) : Base64UrlValue(s[i]) < 0) \/ Len(s) % 4 = 1
    THEN None
    ELSE Some(Base64UrlDecodeGroups(s))

(***************************************************************************)
(* VAPID signatures (vapid/signer.rs, vapid/key.rs)                        *)
(***************************************************************************)
\* VapidSignature: auth_t is the JWT, auth_k the key as the signer stores it.
VapidSignature(auth_t, auth_k) == [auth_t |-> auth_t, auth_k |-> auth_k]

\* impl Into<String> for &VapidSignature
VapidSignature_into_String(signature) == "WebPush " \o signature.auth_t

\* VapidKey::public_key() of the key of resources/vapid_test_key.pem.
VapidTestPublicKey ==
    << 4, 202, 53, 30, 162, 133, 234, 201, 12, 101, 140, 164, 174, 215, 189, 118, 234,
       152, 192, 16, 244, 242, 96, 208, 41, 59, 167, 70, 66, 93, 15, 123, 19, 39, 209, 62,
       203, 35, 122, 176, 153, 79, 89, 58, 74, 54, 26, 126, 203, 98, 158, 75, 170, 0, 52,
       113, 126, 171, 124, 55, 237, 176, 165, 111, 181 >>

\* The auth_k VapidSigner::sign stores for a public key.
VapidSigner_auth_k(public_key) == base64_encode_config(public_key, URL_SAFE_NO_PAD)

(***************************************************************************)
(* The payload encryptor (http_ece.rs, http_ece/aes128gcm.rs)              *)
(***************************************************************************)
\* Result<T, WebPushError>
OkOf(v) == [ok |-> TRUE, v |-> v]
ErrOf(e) == [ok |-> FALSE, err |-> e]
\* No result yet: the call has not returned.
NoResult == ErrOf("pending")

HttpEce_new(encoding, peer_public_key, peer_secret, vapid_signature) ==
    [encoding |-> encoding, peer_public_key |-> peer_public_key,
     peer_secret |-> peer_secret, vapid_signature |-> vapid_signature]

\* The public key of the tests' ephemeral key pair ("BBXpqe...").
TestEphemeralPublicKey ==
    << 4, 21, 233, 169, 227, 27, 182, 221, 98, 193, 42, 24, 206, 206, 238, 68, 191, 144,
       85, 34, 147, 2, 224, 15, 174, 233, 201, 160, 220, 150, 219, 3, 10, 121, 80, 84,
       200, 209, 66, 169, 185, 38, 165, 84, 217, 57, 86, 234, 90, 156, 41, 175, 255, 186,
       78, 146, 111, 147, 90, 147, 241, 63, 162, 57, 139 >>

\* The decoded p256dh of the tests' subscription ("BLMbF9...").
TestPeerPublicKey ==
    << 4, 179, 27, 23, 215, 223, 40, 24, 150, 64, 176, 138, 189, 49, 219, 232, 179, 188,
       53, 190, 157, 113, 72, 122, 76, 139, 66, 227, 158, 111, 187, 105, 4, 150, 6, 186,
       61, 11, 212, 153, 161, 114, 9, 220, 164, 197, 141, 167, 57, 36, 139, 223, 34, 160,
       125, 185, 133, 45, 20, 212, 104, 107, 248, 201, 95 >>

\* A second point of the curve (the p256dh of the VAPID builder's tests).
SecondPublicKey ==
    << 4, 125, 71, 77, 226, 140, 239, 227, 112, 104, 177, 135, 18, 172, 94, 187, 98, 26,
       153, 6, 149, 84, 185, 28, 176, 81, 207, 32, 121, 172, 10, 122, 177, 112, 17, 207,
       64, 26, 107, 23, 141, 91, 16, 195, 171, 220, 237, 97, 81, 13, 163, 83, 90, 41, 52,
       73, 181, 23, 249, 89, 87, 251, 49, 48, 255 >>

\* The decoded auth of the tests' subscription ("xS03Fi5ErfTNH_l9WHE9Ig").
TestPeerSecret ==
    << 197, 45, 55, 22, 46, 68, 173, 244, 205, 31, 249, 125, 88, 113, 61, 34 >>

\* The salt of the tests ("YMcMuxqRkchXwy7vMwNl1Q").
TestSalt == << 96, 199, 12, 187, 26, 145, 145, 200, 87, 195, 46, 239, 51, 3, 101, 213 >>

\* A second salt: the bytes 0..15.
SecondSalt == [i \in 1..16 |-> i - 1]

\* A third point of the curve (the p256dh of the request builder's test,
\* "BGa4N1...").
ThirdPublicKey ==
    << 4, 102, 184, 55, 83, 200, 239, 217, 91, 160, 196, 127, 98, 188, 2, 136, 43, 32,
       167, 126, 67, 70, 247, 157, 183, 186, 41, 29, 199, 244, 200, 205, 226, 56, 20,
       210, 161, 6, 42, 64, 188, 22, 196, 7, 209, 40, 78, 173, 176, 57, 209, 121, 105,
       161, 176, 137, 164, 132, 49, 127, 12, 23, 100, 53, 37 >>

\* A third salt: the bytes 15..0.
ThirdSalt == [i \in 1..16 |-> 16 - i]

\* Whether agree_ephemeral accepts the bytes as a peer's public key: the
\* points of P-256 among the keys of the model.
IsP256Point(bytes) ==
    bytes \in {TestPeerPublicKey, TestEphemeralPublicKey, SecondPublicKey, ThirdPublicKey}

\* EphemeralPrivateKey::compute_public_key of the key pairs the rng yields.
compute_public_key(private_key) ==
    CASE private_key = "k1" -> TestEphemeralPublicKey
      [] private_key = "k2" -> SecondPublicKey
      [] OTHER -> ThirdPublicKey

\* The secret agree_ephemeral hands to its closure.  ECDH is symmetric in
\* the two key pairs: the secret is a function of the two public keys.
agree_ephemeral(private_key, peer_public_key) ==
    [ecdh |-> {compute_public_key(private_key), peer_public_key}]

\* hkdf::Salt::new(HKDF_SHA256, salt).extract(ikm).expand(info, len), a
\* symbolic term: two derivations agree iff all four inputs agree.
hkdf_extract_expand(salt, ikm, info, len) ==
    [hkdf_salt |-> salt, ikm |-> ikm, info |-> info, len |-> len]

\* EceNonce::default()
EceNonce_default == [used |-> FALSE, nonce |-> <<>>]

\* EceNonce::fill
EceNonce_fill(self, nonce) == [used |-> FALSE, nonce |-> nonce]

\* advance leaving the nonce unused.
EceNonce_advance_reusable(self) ==
    IF self.used
    THEN [self |-> self, out |-> ErrOf("Unspecified")]
    ELSE IF Len(self.nonce) > 12
    THEN [self |-> self, out |-> ErrOf("Unspecified")]
    ELSE [self |-> self,
          out |-> OkOf([i \in 1..12 |-> IF i <= Len(self.nonce) THEN self.nonce[i] ELSE 0])]

\* <EceNonce as NonceSequence>::advance: the EceNonce after the call, and
\* the Result.  The loop copies the stored bytes into [0u8; 12] and returns
\* Err at the thirteenth, before used is set.
EceNonce_advance(self) ==
    IF self.used
    THEN [self |-> self, out |-> ErrOf("Unspecified")]
    ELSE IF Len(self.nonce) > 12
    THEN [self |-> self, out |-> ErrOf("Unspecified")]
    ELSE [self |-> [self EXCEPT !.used = TRUE],
          out |-> OkOf([i \in 1..12 |-> IF i <= Len(self.nonce) THEN self.nonce[i] ELSE 0])]

\* The bytes of an HKDF output: as many as the expansion asked for, their
\* values standing for the term.
okm_bytes(okm, fill_byte) == [i \in 1..okm.len |-> fill_byte]

\* front_pad taking the whole output for max_payload.
front_pad_no_prefix(payload, output_len) ==
    LET padding_size == output_len - payload.len
    IN  [len |-> output_len,
         padding |-> <<(padding_size \div 256) % 256, padding_size % 256>>,
         zeros |-> padding_size,
         data_at |-> padding_size + 2,
         data |-> payload]

\* front_pad: output[0..2] is the padding size, output[2..padding_size + 2]
\* stays zero, the payload follows.
front_pad(payload, output_len) ==
    LET padding_size == output_len - 2 - payload.len
    IN  [len |-> output_len,
         padding |-> <<(padding_size \div 256) % 256, padding_size % 256>>,
         zeros |-> padding_size,
         data_at |-> padding_size + 2,
         data |-> payload]

\* HttpEce::aes_gcm: the payload sealed in place with AES-128-GCM, the tag
\* appended; the key and the nonce are HKDF outputs.
aes_gcm(self, shared_secret, as_public_key, salt_bytes, payload) ==
    LET context == [curve |-> "P-256",
                    first_len |-> <<Len(self.peer_public_key) \div 256,
                                    Len(self.peer_public_key) % 256>>,
                    first |-> self.peer_public_key,
                    second_len |-> <<Len(as_public_key) \div 256, Len(as_public_key) % 256>>,
                    second |-> as_public_key]
        prk == hkdf_extract_expand(self.peer_secret, shared_secret,
                                   [label |-> "Content-Encoding: auth"], 32)
        content_encryption_key ==
            hkdf_extract_expand(salt_bytes, prk,
                                [label |-> "Content-Encoding: aesgcm", context |-> context], 16)
        nonce_bytes ==
            hkdf_extract_expand(salt_bytes, prk,
                                [label |-> "Content-Encoding: nonce", context |-> context], 12)
    IN  [len |-> payload.len + 16, key |-> content_encryption_key,
         nonce |-> nonce_bytes, aad |-> <<>>, sealed |-> payload]

\* The aesgcm content made with a key pair kept from an earlier call.
aesgcm_content_kept_key(self, data, private_key, salt_bytes) ==
    aes_gcm(self, agree_ephemeral("k1", self.peer_public_key),
            compute_public_key("k1"), salt_bytes, front_pad(data, 3054))

\* The content of an aesgcm payload: vec![0; 3054] front-padded and sealed
\* in place, the 16-byte tag appended.
aesgcm_content(self, data, private_key, salt_bytes) ==
    aes_gcm(self, agree_ephemeral(private_key, self.peer_public_key),
            compute_public_key(private_key), salt_bytes, front_pad(data, 3054))

\* generate_headers encoding with URL_SAFE.
generate_headers_padded(self, public_key, salt) ==
    LET crypto_key == "dh=" \o ToStr(base64_encode_config(public_key, URL_SAFE))
        encryption == <<"Encryption", "salt=" \o ToStr(base64_encode_config(salt, URL_SAFE))>>
    IN  IF self.vapid_signature.some
        THEN LET signature == self.vapid_signature.v
             IN  << <<"Authorization", VapidSignature_into_String(signature)>>,
                    <<"Crypto-Key", crypto_key \o "; p256ecdsa=" \o ToStr(signature.auth_k)>>,
                    encryption >>
        ELSE << <<"Crypto-Key", crypto_key>>, encryption >>

\* HttpEce::generate_headers
generate_headers(self, public_key, salt) ==
    LET crypto_key == "dh=" \o ToStr(base64_encode_config(public_key, URL_SAFE_NO_PAD))
        encryption == <<"Encryption",
                        "salt=" \o ToStr(base64_encode_config(salt, URL_SAFE_NO_PAD))>>
    IN  IF self.vapid_signature.some
        THEN LET signature == self.vapid_signature.v
             IN  << <<"Authorization", VapidSignature_into_String(signature)>>,
                    <<"Crypto-Key", crypto_key \o "; p256ecdsa=" \o ToStr(signature.auth_k)>>,
                    encryption >>
        ELSE << <<"Crypto-Key", crypto_key>>, encryption >>

\* Aes128Gcm::headers with the aesgcm scheme's Authorization value.
Aes128Gcm_headers_webpush_scheme(vapid_signature) ==
    IF vapid_signature.some
    THEN << <<"Authorization", VapidSignature_into_String(vapid_signature.v)>> >>
    ELSE <<>>

\* Aes128Gcm::headers
Aes128Gcm_headers(vapid_signature) ==
    IF vapid_signature.some
    THEN LET signature == vapid_signature.v
         IN  << <<"Authorization",
                  "vapid t=" \o signature.auth_t \o ", k=" \o ToStr(signature.auth_k)>> >>
    ELSE <<>>

\* HttpEce::encrypt checking the size after the key pair and the salt.
HttpEce_encrypt_size_check_late(self, data, r) ==
    IF ~r.key.some
    THEN [out |-> ErrOf("Unspecified"), draws |-> <<"generate">>]
    ELSE IF ~r.salt.some
    THEN [out |-> ErrOf("Unspecified"), draws |-> <<"generate", "fill">>]
    ELSE IF data.len > 3052
    THEN [out |-> ErrOf("PayloadTooLarge"), draws |-> <<"generate", "fill">>]
    ELSE IF ~IsP256Point(self.peer_public_key)
    THEN [out |-> ErrOf("Unspecified"), draws |-> <<"generate", "fill">>]
    ELSE IF self.encoding = "AesGcm"
    THEN [out |-> OkOf(WebPushPayload(
                         aesgcm_content(self, data, r.key.v, r.salt.v),
                         generate_headers(self, compute_public_key(r.key.v), r.salt.v),
                         "AesGcm")),
          draws |-> <<"generate", "fill">>]
    ELSE [out |-> ErrOf("NotImplemented"), draws |-> <<"generate", "fill">>]

\* HttpEce::encrypt: the Result, and the uses of the rng it made, in order.
\* r is what the rng yields: r.key the generated key pair (None: generate
\* fails), r.salt the 16 bytes of fill (None: fill fails).
HttpEce_encrypt(self, data, r) ==
    IF data.len > 3052
    THEN [out |-> ErrOf("PayloadTooLarge"), draws |-> <<>>]
    ELSE IF ~r.key.some
    THEN [out |-> ErrOf("Unspecified"), draws |-> <<"generate">>]
    ELSE IF ~r.salt.some
    THEN [out |-> ErrOf("Unspecified"), draws |-> <<"generate", "fill">>]
    ELSE IF ~IsP256Point(self.peer_public_key)
    THEN [out |-> ErrOf("Unspecified"), draws |-> <<"generate", "fill">>]
    ELSE IF self.encoding = "AesGcm"
    THEN [out |-> OkOf(WebPushPayload(
                         aesgcm_content(self, data, r.key.v, r.salt.v),
                         generate_headers(self, compute_public_key(r.key.v), r.salt.v),
                         "AesGcm")),
          draws |-> <<"generate", "fill">>]
    ELSE [out |-> ErrOf("NotImplemented"), draws |-> <<"generate", "fill">>]

\* What the rng can yield to one encrypt call.
RngOutcomes ==
    { [key |-> k, salt |-> st] : k \in {None, Some("k1"), Some("k2")},
                                 st \in {None, Some(TestSalt), Some(SecondSalt)} }

(***************************************************************************)
(* The message builder (message.rs)                                        *)
(***************************************************************************)
SubscriptionInfo_new(endpoint, p256dh, auth) ==
    [endpoint |-> endpoint, keys |-> [p256dh |-> p256dh, auth |-> auth]]

WebPushPayloadBuilder(data, encoding) == [content |-> data, encoding |-> encoding]

\* WebPushMessageBuilder::new: the fields next to the borrowed subscription.
WebPushMessageBuilder_new ==
    [ttl |-> 2419200, urgency |-> None, topic |-> None, payload |-> None,
     vapid_signature |-> None]

is_base64url_char(c) ==
    \/ (c >= 65 /\ c <= 90)
    \/ (c >= 97 /\ c <= 122)
    \/ (c >= 48 /\ c <= 57)
    \/ c = 45
    \/ c = 95

\* char::len_utf8
len_utf8(c) == IF c < 128 THEN 1 ELSE IF c < 2048 THEN 2 ELSE IF c < 65536 THEN 3 ELSE 4

RECURSIVE str_len(_)
\* str::len(): the length in bytes of the UTF-8 encoding.
str_len(s) == IF s = <<>> THEN 0 ELSE len_utf8(Head(s)) + str_len(Tail(s))

\* The topic check of build letting a topic of 33 bytes pass.
check_topic_limit_off_by_one(topic) ==
    IF str_len(topic) > 33
    THEN ErrOf("InvalidTopic")
    ELSE IF \A i \in 1..Len(topic) : is_base64url_char(topic[i])
    THEN OkOf(topic)
    ELSE ErrOf("InvalidTopic")

\* The topic check of build without its length limit.
check_topic_no_limit(topic) ==
    IF \A i \in 1..Len(topic) : is_base64url_char(topic[i])
    THEN OkOf(topic)
    ELSE ErrOf("InvalidTopic")

\* The topic check of build: Ok(topic) or Err(InvalidTopic).
check_topic(topic) ==
    IF str_len(topic) > 32
    THEN ErrOf("InvalidTopic")
    ELSE IF \A i \in 1..Len(topic) : is_base64url_char(topic[i])
    THEN OkOf(topic)
    ELSE ErrOf("InvalidTopic")

\* str::parse::<Uri>(), on the endpoints of the model: an empty string and a
\* string with a space or a control character do not parse.
Uri_parse(s) ==
    IF s = <<>> \/ \E i \in 1..Len(s) : s[i] <= 32 \/ s[i] >= 127
    THEN None
    ELSE Some(ToStr(s))

\* build decoding the keys before it checks the topic.
build_keys_before_topic(self, si, r) ==
    LET endpoint == Uri_parse(si.endpoint)
        checked == IF self.topic.some THEN check_topic(self.topic.v) ELSE OkOf(<<>>)
        topic == IF self.topic.some THEN Some(checked.v) ELSE None
        p256dh == Base64UrlSafeNoPadding_decode_to_vec(si.keys.p256dh)
        auth == Base64UrlSafeNoPadding_decode_to_vec(si.keys.auth)
    IN  IF ~endpoint.some
        THEN [out |-> ErrOf("InvalidUri"), crypto |-> <<>>]
        ELSE IF self.payload.some /\ ~p256dh.some
        THEN [out |-> ErrOf("InvalidCryptoKeys"), crypto |-> <<"decode">>]
        ELSE IF self.payload.some /\ ~auth.some
        THEN [out |-> ErrOf("InvalidCryptoKeys"), crypto |-> <<"decode", "decode">>]
        ELSE IF ~checked.ok
        THEN [out |-> checked, crypto |-> IF self.payload.some THEN <<"decode", "decode">> ELSE <<>>]
        ELSE IF self.payload.some
        THEN LET http_ece == HttpEce_new(self.payload.v.encoding, p256dh.v, auth.v,
                                         self.vapid_signature)
                 enc == HttpEce_encrypt(http_ece, self.payload.v.content, r)
             IN  [out |-> IF enc.out.ok
                          THEN OkOf(WebPushMessage(endpoint.v, self.ttl, self.urgency,
                                                   topic, Some(enc.out.v)))
                          ELSE enc.out,
                  crypto |-> <<"decode", "decode", "encrypt">> \o enc.draws]
        ELSE [out |-> OkOf(WebPushMessage(endpoint.v, self.ttl, self.urgency, topic, None)),
              crypto |-> <<>>]

\* build decoding the keys whether a payload is set or not.
build_always_decodes(self, si, r) ==
    LET endpoint == Uri_parse(si.endpoint)
        checked == IF self.topic.some THEN check_topic(self.topic.v) ELSE OkOf(<<>>)
        topic == IF self.topic.some THEN Some(checked.v) ELSE None
        p256dh == Base64UrlSafeNoPadding_decode_to_vec(si.keys.p256dh)
        auth == Base64UrlSafeNoPadding_decode_to_vec(si.keys.auth)
    IN  IF ~endpoint.some
        THEN [out |-> ErrOf("InvalidUri"), crypto |-> <<>>]
        ELSE IF ~checked.ok
        THEN [out |-> checked, crypto |-> <<>>]
        ELSE IF ~p256dh.some
        THEN [out |-> ErrOf("InvalidCryptoKeys"), crypto |-> <<"decode">>]
        ELSE IF ~auth.some
        THEN [out |-> ErrOf("InvalidCryptoKeys"), crypto |-> <<"decode", "decode">>]
        ELSE IF self.payload.some
        THEN LET http_ece == HttpEce_new(self.payload.v.encoding, p256dh.v, auth.v,
                                         self.vapid_signature)
                 enc == HttpEce_encrypt(http_ece, self.payload.v.content, r)
             IN  [out |-> IF enc.out.ok
                          THEN OkOf(WebPushMessage(endpoint.v, self.ttl, self.urgency,
                                                   topic, Some(enc.out.v)))
                          ELSE enc.out,
                  crypto |-> <<"decode", "decode", "encrypt">> \o enc.draws]
        ELSE [out |-> OkOf(WebPushMessage(endpoint.v, self.ttl, self.urgency, topic, None)),
              crypto |-> <<"decode", "decode">>]

\* WebPushMessageBuilder::build: the Result, and the crypto calls it made, in
\* order (the key decodings, encrypt, the uses of the rng).
build(self, si, r) ==
    LET endpoint == Uri_parse(si.endpoint)
        checked == IF self.topic.some THEN check_topic(self.topic.v) ELSE OkOf(<<>>)
        topic == IF self.topic.some THEN Some(checked.v) ELSE None
    IN  IF ~endpoint.some
        THEN [out |-> ErrOf("InvalidUri"), crypto |-> <<>>]
        ELSE IF ~checked.ok
        THEN [out |-> checked, crypto |-> <<>>]
        ELSE IF self.payload.some
        THEN LET p256dh == Base64UrlSafeNoPadding_decode_to_vec(si.keys.p256dh)
                 auth == Base64UrlSafeNoPadding_decode_to_vec(si.keys.auth)
             IN  IF ~p256dh.some
                 THEN [out |-> ErrOf("InvalidCryptoKeys"), crypto |-> <<"decode">>]
                 ELSE IF ~auth.some
                 THEN [out |-> ErrOf("InvalidCryptoKeys"), crypto |-> <<"decode", "decode">>]
                 ELSE LET http_ece == HttpEce_new(self.payload.v.encoding, p256dh.v, auth.v,
                                                  self.vapid_signature)
                          enc == HttpEce_encrypt(http_ece, self.payload.v.content, r)
                      IN  [out |-> IF enc.out.ok
                                   THEN OkOf(WebPushMessage(endpoint.v, self.ttl, self.urgency,
                                                            topic, Some(enc.out.v)))
                                   ELSE enc.out,
                           crypto |-> <<"decode", "decode", "encrypt">> \o enc.draws]
        ELSE [out |-> OkOf(WebPushMessage(endpoint.v, self.ttl, self.urgency, topic, None)),
              crypto |-> <<>>]

(***************************************************************************)
(* The VAPID signer and its builders (vapid/signer.rs, vapid/builder.rs,   *)
(* vapid/key.rs).  The claims are the BTreeMap sign takes: a function from *)
(* the keys present to their values, a Value::String being [str |-> the    *)
(* characters] and a Value::Number [num |-> n].  auth_t is kept as its     *)
(* characters, so that its segments can be told apart.                     *)
(***************************************************************************)
\* The keys of the model's claims with their characters, in the order a
\* BTreeMap iterates them: "aud" < "exp" < "foo" < "sub".
ClaimKeys ==
    << [key |-> "aud", chars |-> <<97, 117, 100>>],
       [key |-> "exp", chars |-> <<101, 120, 112>>],
       [key |-> "foo", chars |-> <<102, 111, 111>>],
       [key |-> "sub", chars |-> <<115, 117, 98>>] >>

\* BTreeMap::new()
NoClaims == [k \in {} |-> [num |-> 0]]

RECURSIVE DecimalChars(_)
\* The decimal digits of a number, as character codes.
DecimalChars(n) ==
    IF n < 10 THEN <<48 + n>> ELSE DecimalChars(n \div 10) \o <<48 + (n % 10)>>

\* serde_json's text of a Value: a string in quotes (the model's strings
\* hold no character that needs an escape), a number in decimal.
Value_to_string(v) ==
    IF "str" \in DOMAIN v THEN <<34>> \o v.str \o <<34>> ELSE DecimalChars(v.num)

RECURSIVE JsonMembers(_, _)
\* The members of the claims among keys, in order, separated by commas.
JsonMembers(claims, keys) ==
    IF keys = <<>> THEN <<>>
    ELSE LET rest == JsonMembers(claims, Tail(keys))
             k == Head(keys)
         IN  IF k.key \notin DOMAIN claims THEN rest
             ELSE <<34>> \o k.chars \o <<34, 58>> \o Value_to_string(claims[k.key])
                    \o (IF rest = <<>> THEN <<>> ELSE <<44>> \o rest)

\* serde_json::to_string(&claims)
serde_json_to_string(claims) == <<123>> \o JsonMembers(claims, ClaimKeys) \o <<125>>

\* JWT_HEADERS: the base64url text of {"alg":"ES256","typ":"JWT"}.
JWT_HEADERS ==
    base64_encode_config(
        <<123, 34, 97, 108, 103, 34, 58, 34, 69, 83, 50, 53, 54, 34, 44, 34, 116, 121,
          112, 34, 58, 34, 74, 87, 84, 34, 125>>, URL_SAFE_NO_PAD)

\* Where "://" starts in an endpoint (0: nowhere).
SchemeEnd(s) ==
    LET at == { i \in 1..(Len(s) - 2) : s[i] = 58 /\ s[i + 1] = 47 /\ s[i + 2] = 47 }
    IN  IF at = {} THEN 0 ELSE CHOOSE i \in at : \A j \in at : i <= j

\* endpoint.host(): what follows "://" up to the port, the path, the query
\* or the fragment.
Url_host(s) ==
    LET from == SchemeEnd(s) + 3
        stops == { i \in from..Len(s) : s[i] \in {58, 47, 63, 35} }
        to == IF stops = {} THEN Len(s) ELSE (CHOOSE i \in stops : \A j \in stops : i <= j) - 1
    IN  SubSeq(s, from, to)

\* endpoint.host() is Some: the endpoint has an authority.  An endpoint in
\* origin form ("/push") parses and has none.
Url_has_host(s) == SchemeEnd(s) > 0 /\ Url_host(s) # <<>>

\* Option::unwrap on None: the call does not return, the thread panics.
Panic == [ok |-> FALSE, err |-> "panic"]

\* The public key of the model's private keys: the key of
\* resources/vapid_test_key.pem, and the key of PRIVATE_BASE64.
VapidKey_public_key(key) ==
    IF key = "vapid_test_key"
    THEN VapidTestPublicKey
    ELSE << 4, 200, 208, 34, 158, 121, 165, 214, 212, 242, 151, 194, 4, 172, 151, 113,
            152, 229, 152, 68, 127, 153, 123, 121, 46, 163, 107, 55, 88, 107, 93, 183, 65,
            75, 145, 39, 132, 134, 204, 187, 112, 46, 249, 21, 121, 222, 34, 41, 206, 220,
            205, 94, 65, 136, 231, 160, 69, 7, 91, 157, 67, 192, 106, 252, 126 >>

RECURSIVE StripZeros(_)
\* The bytes of a big-endian integer without its leading zero bytes.
StripZeros(bytes) ==
    IF Len(bytes) > 1 /\ bytes[1] = 0 THEN StripZeros(Tail(bytes)) ELSE bytes

\* The content of a DER INTEGER: the shortest big-endian form, a zero byte
\* in front when the first bit is set.
der_integer(fixed) ==
    LET shortest == StripZeros(fixed)
    IN  IF shortest[1] >= 128 THEN <<0>> \o shortest ELSE shortest

\* signer.sign_to_vec(): the DER of an ECDSA signature (r, s), r and s given
\* as 32-byte big-endian integers.
sign_to_vec(r, s) ==
    LET rd == der_integer(r)
        sd == der_integer(s)
    IN  <<48, 4 + Len(rd) + Len(sd), 2, Len(rd)>> \o rd \o <<2, Len(sd)>> \o sd

\* An expiry twelve minutes ahead.
expiry_in_minutes(t) == t + 12 * 60

\* OffsetDateTime::now_utc() + Duration::hours(12), as a unix timestamp.
expiry(t) == t + 12 * 3600

\* VapidSigner::sign at time t, the openssl signer returning the DER
\* signature.  Indices are the code's, plus one.
VapidSigner_sign(key, endpoint, claims, t, signature) ==
    LET with_aud == IF "aud" \in DOMAIN claims THEN claims
                    ELSE ("aud" :> [str |-> <<104, 116, 116, 112, 115, 58, 47, 47>>
                                              \o Url_host(endpoint)]) @@ claims
        with_exp == IF "exp" \in DOMAIN with_aud THEN with_aud
                    ELSE ("exp" :> [num |-> expiry(t)]) @@ with_aud
        signing_input ==
            JWT_HEADERS \o <<46>>
              \o base64_encode_config(serde_json_to_string(with_exp), URL_SAFE_NO_PAD)
        auth_k == VapidSigner_auth_k(VapidKey_public_key(key))
        r_off == 3
        r_len == signature[r_off + 1]
        s_off == r_off + r_len + 2
        s_len == signature[s_off + 1]
        r_all == SubSeq(signature, r_off + 2, r_off + 1 + r_len)
        s_all == SubSeq(signature, s_off + 2, s_off + 1 + s_len)
        r_val == IF r_len = 33 /\ r_all[1] = 0 THEN Tail(r_all) ELSE r_all
        s_val == IF s_len = 33 /\ s_all[1] = 0 THEN Tail(s_all) ELSE s_all
        sigval == r_val \o s_val
        auth_t == signing_input \o <<46>> \o base64_encode_config(sigval, URL_SAFE_NO_PAD)
    IN  IF "aud" \notin DOMAIN claims /\ ~Url_has_host(endpoint)
        THEN Panic
        ELSE OkOf(VapidSignature(auth_t, auth_k))

\* A PEM input: whether pem::parse_many accepts it, and its sections in
\* document order, each with its tag and the key it holds.
PemInput(wellformed, sections) == [wellformed |-> wellformed, sections |-> sections]

\* A key reader of a library handed the whole input (sec1_decode::parse_pem
\* for EC PRIVATE KEY, ES256KeyPair::from_pem for PRIVATE KEY).  The readers
\* are not code of this repository: "tagged" is a reader that takes the
\* first section of its tag, "first" one that reads the first section of
\* the input and fails when it is of another tag.
SectionReader(sections, tag, how) ==
    LET tagged == { i \in 1..Len(sections) : sections[i].tag = tag }
    IN  IF how = "tagged"
        THEN OkOf(sections[CHOOSE i \in tagged : \A j \in tagged : i <= j].key)
        ELSE IF sections[1].tag = tag
        THEN OkOf(sections[1].key)
        ELSE ErrOf("InvalidCryptoKeys")

\* VapidSignatureBuilder::read_pem
read_pem(input, how) ==
    LET sections_read == input.sections
        found_pkcs8 == \E i \in 1..Len(sections_read) : sections_read[i].tag = "PRIVATE KEY"
        found_sec1 == \E i \in 1..Len(sections_read) : sections_read[i].tag = "EC PRIVATE KEY"
    IN  IF ~input.wellformed
        THEN ErrOf("InvalidCryptoKeys")
        ELSE IF found_sec1
        THEN SectionReader(sections_read, "EC PRIVATE KEY", how)
        ELSE IF found_pkcs8
        THEN SectionReader(sections_read, "PRIVATE KEY", how)
        ELSE ErrOf("MissingCryptoKeys")

\* The PEM text of a key file of one section, or of none.
FileSections(file) ==
    CASE file.format = "sec1_pem" -> <<[tag |-> "EC PRIVATE KEY", key |-> file.key]>>
      [] file.format = "pkcs8_pem" -> <<[tag |-> "PRIVATE KEY", key |-> file.key]>>
      [] OTHER -> <<>>

\* VapidSignatureBuilder::read_pem and the DER readers: the key of a file
\* of the model, [format, key].  A DER file is no text; with one section
\* the key readers agree.
read_key(file, as) ==
    IF as = "pem"
    THEN IF file.format = "der"
         THEN ErrOf("InvalidCryptoKeys")
         ELSE read_pem(PemInput(TRUE, FileSections(file)), "tagged")
    ELSE IF file.format = "der" THEN OkOf(file.key) ELSE ErrOf("InvalidCryptoKeys")

\* VapidSignatureBuilder::from_pem_no_sub, from_der_no_sub
PartialVapidSignatureBuilder_from(file, as) ==
    LET pr_key == read_key(file, as)
    IN  IF pr_key.ok THEN OkOf([key |-> pr_key.v]) ELSE pr_key

\* PartialVapidSignatureBuilder::get_public_key
get_public_key(self) == VapidKey_public_key(self.key)

\* PartialVapidSignatureBuilder::add_sub_info
add_sub_info(self, si) == [key |-> self.key, claims |-> NoClaims, subscription_info |-> si]

\* VapidSignatureBuilder::add_claim
add_claim(self, key, val) == [self EXCEPT !.claims = (key :> val) @@ self.claims]

\* VapidSignatureBuilder::build
VapidSignatureBuilder_build(self, t, signature) ==
    IF ~Uri_parse(self.subscription_info.endpoint).some
    THEN ErrOf("InvalidUri")
    ELSE VapidSigner_sign(self.key, self.subscription_info.endpoint, self.claims, t, signature)

(***************************************************************************)
(* Retry-After (error.rs)                                                  *)
(***************************************************************************)
IsDigit(c) == c >= 48 /\ c <= 57

RECURSIVE DigitsValue(_, _)
DigitsValue(s, acc) ==
    IF s = <<>> THEN acc ELSE DigitsValue(Tail(s), acc * 10 + (Head(s) - 48))

\* u64::MAX in decimal digits: "18446744073709551615".
u64_MAX ==
    <<49, 56, 52, 52, 54, 55, 52, 52, 48, 55, 51, 55, 48, 57, 53, 53, 49, 54, 49, 53>>

RECURSIVE StripLeadingZeros(_)
StripLeadingZeros(s) ==
    IF s # <<>> /\ Head(s) = 48 THEN StripLeadingZeros(Tail(s)) ELSE s

RECURSIVE DigitsAbove(_, _)
\* a > b, of two digit strings of one length.
DigitsAbove(a, b) ==
    IF a = <<>> THEN FALSE
    ELSE IF Head(a) # Head(b) THEN Head(a) > Head(b)
    ELSE DigitsAbove(Tail(a), Tail(b))

\* IntErrorKind::PosOverflow: the digits' value is above u64::MAX.
PosOverflow(digits) ==
    LET significant == StripLeadingZeros(digits)
    IN  \/ Len(significant) > Len(u64_MAX)
        \/ Len(significant) = Len(u64_MAX) /\ DigitsAbove(significant, u64_MAX)

\* str::parse::<u64>: an optional '+', then one or more decimal digits whose
\* value fits 64 bits.
parse_u64(s) ==
    LET digits == IF s # <<>> /\ Head(s) = 43 THEN Tail(s) ELSE s
    IN  IF digits = <<>>
           \/ \E i \in 1..Len(digits) : ~IsDigit(digits[i])
           \/ PosOverflow(digits)
        THEN None
        ELSE Some(DigitsValue(StripLeadingZeros(digits), 0))

\* "Wed, 21 Oct 2015 07:28:00 GMT"
DateOct2015 ==
    <<87, 101, 100, 44, 32, 50, 49, 32, 79, 99, 116, 32, 50, 48, 49, 53, 32,
      48, 55, 58, 50, 56, 58, 48, 48, 32, 71, 77, 84>>

\* "Tue, 14 Nov 2023 22:14:40 GMT"
DateNov2023 ==
    <<84, 117, 101, 44, 32, 49, 52, 32, 78, 111, 118, 32, 50, 48, 50, 51, 32,
      50, 50, 58, 49, 52, 58, 52, 48, 32, 71, 77, 84>>

\* chrono::DateTime::parse_from_rfc2822, on the dates the model sends: the
\* date's seconds since the Unix epoch.
parse_from_rfc2822(s) ==
    CASE s = DateOct2015 -> Some(1445412480)
      [] s = DateNov2023 -> Some(1700000080)
      [] OTHER -> None

\* RetryAfter::from_str with a past date left as it is.
RetryAfter_from_str_unclamped(header_value, t) ==
    LET seconds == parse_u64(header_value)
        date_time == parse_from_rfc2822(header_value)
    IN  IF seconds.some
        THEN Some(seconds.v)
        ELSE IF date_time.some
             THEN IF date_time.v >= t THEN Some(date_time.v - t) ELSE None
             ELSE None

\* RetryAfter::from_str, the clock reading t.
RetryAfter_from_str(header_value, t) ==
    LET seconds == parse_u64(header_value)
        date_time == parse_from_rfc2822(header_value)
    IN  IF seconds.some
        THEN Some(seconds.v)
        ELSE IF date_time.some
             THEN Some(IF date_time.v > t THEN date_time.v - t ELSE 0)
             ELSE None

\* HeaderValue::to_str(): Ok for visible ASCII and tab only.
HeaderValue_to_str(value) ==
    IF \A i \in 1..Len(value) : IsPrintable(value[i]) \/ value[i] = 9
    THEN Some(value)
    ELSE None

(***************************************************************************)
(* The clients' send (clients/hyper_client.rs, hyper_rustls_client.rs,     *)
(* isahc_client.rs)                                                        *)
(***************************************************************************)
\* The cap on the response body, in bytes.
MAX_RESPONSE_SIZE == 65536

\* A chunk of a body stream is its byte count, or ChunkError: the read fails.
ChunkError == -1

Response(status, retry_after_header, chunks, form, json, text) ==
    [status |-> status, retry_after_header |-> retry_after_header,
     chunks |-> chunks, form |-> form, json |-> json, text |-> text]

NoResponse == Response(0, None, <<>>, "utf8", NoInfo, "")

\* The retry_after send reads off the response headers.
response_retry_after(response, t) ==
    LET ra == response.retry_after_header
        str == IF ra.some THEN HeaderValue_to_str(ra.v) ELSE None
    IN  IF str.some THEN RetryAfter_from_str(str.v, t) ELSE None

\* The body send has accumulated, as the classifier sees it.
accumulated_body(response, len) == Body(len, response.form, response.json, response.text)

\* send returning the classifier's result as it is.
send_result_unwrapped(response, ra) == response

\* send giving the header's retry_after to every error of the classifier.
send_result_every_error(response, ra) ==
    IF response.kind # "Ok" /\ response.retry_after = None
    THEN [response EXCEPT !.retry_after = ra]
    ELSE response

\* What send returns for the classifier's result.
send_result(response, ra) ==
    IF response.kind = "ServerError" /\ response.retry_after = None
    THEN ServerError(ra, response.info)
    ELSE response

\* From<hyper::Error>, From<std::io::Error> and the isahc error's conversion.
From_hyper_Error == Err("Unspecified")
From_IoError == Err("IoError")
From_isahc_Error == Err("Unspecified")

IsHyper == client \in {"hyper", "hyper_rustls"}

\* send up to its first await: the request is built and handed to the client.
SendRequest ==
    /\ pc = "start"
    /\ wire' = Append(wire, build_request(message))
    /\ pc' = "requesting"
    /\ UNCHANGED <<client, message, now, resp, stream, body_len, retry_after, parsed, result>>

\* requesting.await fails and send starts over.
TransportError_retried ==
    /\ pc = "requesting"
    /\ pc' = "start"
    /\ UNCHANGED <<client, message, wire, now, resp, stream, body_len, retry_after, parsed, result>>

\* requesting.await fails.
TransportError ==
    /\ pc = "requesting"
    /\ result' = IF IsHyper THEN From_hyper_Error ELSE From_isahc_Error
    /\ pc' = "done"
    /\ UNCHANGED <<client, message, wire, now, resp, stream, body_len, retry_after, parsed>>

\* requesting.await yields a response: send reads Retry-After and the
\* status off it and takes its body stream.
Responds(response) ==
    /\ resp' = response
    /\ retry_after' = response_retry_after(response, now)
    /\ stream' = response.chunks
    /\ body_len' = 0
    /\ pc' = "reading"
    /\ UNCHANGED <<client, message, wire, now, parsed, result>>

\* The end of send: the body is classified and a ServerError gets the
\* header's retry_after.
classify_and_return ==
    /\ parsed' = parse_response(resp.status, accumulated_body(resp, body_len))
    /\ result' = send_result(parsed', retry_after)
    /\ pc' = "done"

\* HyperReadChunk with the cap compared by >=.
HyperReadChunk_cap_off_by_one ==
    /\ pc = "reading" /\ IsHyper
    /\ stream # <<>>
    /\ stream' = Tail(stream)
    /\ IF Head(stream) = ChunkError
       THEN /\ result' = From_hyper_Error
            /\ pc' = "done"
            /\ UNCHANGED body_len
       ELSE /\ body_len' = body_len + Head(stream)
            /\ IF body_len' >= MAX_RESPONSE_SIZE
               THEN /\ result' = Err("ResponseTooLarge")
                    /\ pc' = "done"
               ELSE UNCHANGED <<result, pc>>
    /\ UNCHANGED <<client, message, wire, now, resp, retry_after, parsed>>

\* hyper: chunks.data().await yields a chunk (or its error); the cap is
\* checked after the chunk is appended.
HyperReadChunk ==
    /\ pc = "reading" /\ IsHyper
    /\ stream # <<>>
    /\ stream' = Tail(stream)
    /\ IF Head(stream) = ChunkError
       THEN /\ result' = From_hyper_Error
            /\ pc' = "done"
            /\ UNCHANGED body_len
       ELSE /\ body_len' = body_len + Head(stream)
            /\ IF body_len' > MAX_RESPONSE_SIZE
               THEN /\ result' = Err("ResponseTooLarge")
                    /\ pc' = "done"
               ELSE UNCHANGED <<result, pc>>
    /\ UNCHANGED <<client, message, wire, now, resp, retry_after, parsed>>

\* hyper: chunks.data().await yields None; the body is complete.
HyperBodyEnd ==
    /\ pc = "reading" /\ IsHyper
    /\ stream = <<>>
    /\ classify_and_return
    /\ UNCHANGED <<client, message, wire, now, resp, stream, body_len, retry_after>>

\* What take(MAX_RESPONSE_SIZE + 1) still lets through.
take_left == (MAX_RESPONSE_SIZE + 1) - body_len

\* isahc: one read of read_to_end through take(MAX_RESPONSE_SIZE + 1).
IsahcRead ==
    /\ pc = "reading" /\ client = "isahc"
    /\ stream # <<>> /\ take_left > 0
    /\ IF Head(stream) = ChunkError
       THEN /\ result' = From_IoError
            /\ pc' = "done"
            /\ stream' = Tail(stream)
            /\ UNCHANGED body_len
       ELSE LET n == IF Head(stream) <= take_left THEN Head(stream) ELSE take_left
            IN  /\ body_len' = body_len + n
                /\ stream' = IF n < Head(stream)
                             THEN <<Head(stream) - n>> \o Tail(stream)
                             ELSE Tail(stream)
                /\ UNCHANGED <<result, pc>>
    /\ UNCHANGED <<client, message, wire, now, resp, retry_after, parsed>>

\* IsahcBodyEnd classifying the status without looking at the size.
IsahcBodyEnd_unchecked ==
    /\ pc = "reading" /\ client = "isahc"
    /\ stream = <<>> \/ take_left <= 0
    /\ classify_and_return
    /\ UNCHANGED <<client, message, wire, now, resp, stream, body_len, retry_after>>

\* isahc: read_to_end returns the byte count (the stream or the take ended).
IsahcBodyEnd ==
    /\ pc = "reading" /\ client = "isahc"
    /\ stream = <<>> \/ take_left <= 0
    /\ IF body_len > MAX_RESPONSE_SIZE
       THEN /\ result' = Err("ResponseTooLarge")
            /\ pc' = "done"
            /\ UNCHANGED parsed
       ELSE classify_and_return
    /\ UNCHANGED <<client, message, wire, now, resp, stream, body_len, retry_after>>

(***************************************************************************)
(* The responses and messages of SpecSend                                  *)
(***************************************************************************)
\* The most chunks a response body arrives in.
MaxChunks == 2

Clients == {"hyper", "hyper_rustls", "isahc"}

ChunkSizes == {1, MAX_RESPONSE_SIZE - 1, MAX_RESPONSE_SIZE, MAX_RESPONSE_SIZE + 1}

Streams == UNION { [1..k -> ChunkSizes \cup {ChunkError}] : k \in 0..MaxChunks }

RECURSIVE TotalBytes(_)
\* The bytes a body stream delivers before it ends or fails.
TotalBytes(chunks) ==
    IF chunks = <<>> \/ Head(chunks) = ChunkError
    THEN 0
    ELSE Head(chunks) + TotalBytes(Tail(chunks))

SendStatuses == {200, 429, 500, 503}

\* "120", "soon", two dates, and a value with a byte that is not visible ASCII.
RetryAfterHeaders ==
    { None, Some(<<49, 50, 48>>), Some(<<115, 111, 111, 110>>), Some(DateOct2015),
      Some(DateNov2023), Some(<<49, 50, 48, 255>>) }

\* A clock reading between the two dates, 80 s before the later one, and a
\* reading after both.
Clock == {1700000000, 1700000100}

Responses ==
    { Response(st, ra, ch, "error_info_json", TestErrorInfo, "")
        : st \in SendStatuses, ra \in RetryAfterHeaders, ch \in Streams \ {<<>>} }
    \cup
    { Response(st, ra, ch, "utf8", NoInfo, IF TotalBytes(ch) = 0 THEN "" ELSE "Gone")
        : st \in SendStatuses, ra \in RetryAfterHeaders, ch \in Streams }
    \cup
    { Response(st, ra, ch, "not_utf8", NoInfo, "")
        : st \in SendStatuses, ra \in RetryAfterHeaders, ch \in Streams \ {<<>>} }

SendMessages ==
    { WebPushMessage("https://fcm.googleapis.com/fcm/send/x", 420, None, None, None),
      WebPushMessage("https://updates.push.services.mozilla.com/wpush/v1/y", 2419200,
                     Some("High"), Some(<<116, 49>>),
                     Some(WebPushPayload(Bytes(3070, "ciphertext"), <<>>, "AesGcm"))) }

TransportResponds ==
    /\ pc = "requesting"
    /\ \E response \in Responses : Responds(response)

EncryptIdle ==
    /\ ece = HttpEce_new("AesGcm", <<>>, <<>>, None)
    /\ enc_content = EmptyBody
    /\ rng = [key |-> None, salt |-> None]
    /\ rng_draws = <<>>
    /\ enc_pc = "idle"
    /\ enc_out = NoResult
    /\ hdr_out = <<>>

BuilderIdle ==
    /\ subscription_info = SubscriptionInfo_new(<<>>, <<>>, <<>>)
    /\ builder = WebPushMessageBuilder_new
    /\ last = WebPushMessageBuilder_new
    /\ b_pc = "idle"
    /\ b_crypto = <<>>
    /\ built = NoResult
    /\ request = NoRequest

RequestIdle ==
    /\ rq_msg = WebPushMessage("", 0, None, None, None)
    /\ rq_out = NoRequest

NoSigned == [self |-> [key |-> ""], now |-> 0, r |-> <<>>, s |-> <<>>, out |-> NoResult]

VapidIdle ==
    /\ partial = NoResult
    /\ sig_builder = None
    /\ utc_now = 0
    /\ signed = NoSigned
    /\ auth_keys = {}

NonceIdle ==
    /\ ece_nonce = [used |-> FALSE, nonce |-> <<>>]
    /\ nonce_log = <<>>

PemIdle ==
    /\ pem_input = [wellformed |-> TRUE, sections |-> <<>>]
    /\ pem_reader = "tagged"
    /\ pem_out = NoResult

ConcurrentIdle ==
    /\ shared = "hyper"
    /\ in_flight = <<>>
    /\ calls = <<>>
    /\ delivered = <<>>
    /\ wall_clock = 0

NoRetryCall == [done |-> FALSE, header_value |-> <<>>, at |-> 0, out |-> None]

RetryIdle ==
    /\ system_time = 0
    /\ retry_call = NoRetryCall

SessionIdle ==
    /\ cur_ece = HttpEce_new("AesGcm", <<>>, <<>>, None)
    /\ system_random = [keys |-> 0, salts |-> 0]
    /\ encrypted = <<>>

SendIdle ==
    /\ client = "hyper"
    /\ message = WebPushMessage("", 0, None, None, None)
    /\ pc = "idle"
    /\ wire = <<>>
    /\ now = 0
    /\ resp = NoResponse
    /\ stream = <<>>
    /\ body_len = 0
    /\ retry_after = None
    /\ parsed = Pending
    /\ result = Pending

ClassifyIdle ==
    /\ cl_status = 0
    /\ cl_body = Body(0, "utf8", NoInfo, "")
    /\ cl_out = Pending

SendInit ==
    /\ ClassifyIdle /\ EncryptIdle /\ BuilderIdle /\ RequestIdle /\ SessionIdle /\ VapidIdle /\ RetryIdle /\ ConcurrentIdle /\ PemIdle /\ NonceIdle
    /\ client \in Clients
    /\ message \in SendMessages
    /\ now \in Clock
    /\ pc = "start"
    /\ wire = <<>>
    /\ resp = NoResponse
    /\ stream = <<>>
    /\ body_len = 0
    /\ retry_after = None
    /\ parsed = Pending
    /\ result = Pending

(***************************************************************************)
(* SpecSend: one send on each client, every response of the sets above.    *)
(***************************************************************************)
SendNext ==
    /\ \/ SendRequest
       \/ TransportError
       \/ TransportResponds
       \/ HyperReadChunk
       \/ HyperBodyEnd
       \/ IsahcRead
       \/ IsahcBodyEnd
    /\ UNCHANGED <<classifyVars, encryptVars, builderVars, requestVars, sessionVars, vapidVars, retryVars, concurrentVars, pemVars, nonceVars>>

SpecSend == SendInit /\ [][SendNext]_vars

(***************************************************************************)
(* SpecClassify: parse_response on every status 100..599 and every body    *)
(* form.                                                                   *)
(***************************************************************************)
StatusCodes == 100..599

ClassifyBodies ==
    { Body(0, "utf8", NoInfo, ""),
      Body(94, "error_info_json", TestErrorInfo, ""),
      Body(60, "error_info_json", ErrorInfo(503, 201, "Busy", "try later"), ""),
      Body(4, "utf8", NoInfo, "Gone"),
      Body(2, "not_utf8", NoInfo, "") }

ClassifyInit ==
    /\ SendIdle /\ EncryptIdle /\ BuilderIdle /\ RequestIdle /\ SessionIdle /\ VapidIdle /\ RetryIdle /\ ConcurrentIdle /\ PemIdle /\ NonceIdle
    /\ cl_status \in StatusCodes
    /\ cl_body \in ClassifyBodies
    /\ cl_out = Pending

ParseResponse ==
    /\ cl_out = Pending
    /\ cl_out' = parse_response(cl_status, cl_body)
    /\ UNCHANGED <<cl_status, cl_body>>
    /\ UNCHANGED <<sendVars, encryptVars, builderVars, requestVars, sessionVars, vapidVars, retryVars, concurrentVars, pemVars, nonceVars>>

SpecClassify == ClassifyInit /\ [][ParseResponse]_vars

(***************************************************************************)
(* SpecEncrypt: one HttpEce value; encrypt, generate_headers or the        *)
(* aes128gcm headers are called on it once.                                *)
(***************************************************************************)
\* The plaintext lengths: empty, the tests' 22 bytes, the limit, one more,
\* and the 3801 bytes of test_payload_too_big.
ContentLengths == {0, 22, 3052, 3053, 3801}

Contents == { Bytes(n, "plaintext") : n \in ContentLengths }

\* The signature of the tests, and one as VapidSigner::sign stores it.
Signatures ==
    { VapidSignature("foo", <<98, 97, 114>>),
      VapidSignature("h.c.s", VapidSigner_auth_k(VapidTestPublicKey)) }

\* The peer keys: two points of the curve and 65 bytes that are none.
PeerPublicKeys == {TestPeerPublicKey, SecondPublicKey, [i \in 1..65 |-> 0]}

Eces ==
    { HttpEce_new(e, k, TestPeerSecret, sig)
        : e \in {"AesGcm", "Aes128Gcm"}, k \in PeerPublicKeys,
          sig \in {None} \cup {Some(g) : g \in Signatures} }

EncryptInit ==
    /\ ClassifyIdle /\ SendIdle /\ BuilderIdle /\ RequestIdle /\ SessionIdle /\ VapidIdle /\ RetryIdle /\ ConcurrentIdle /\ PemIdle /\ NonceIdle
    /\ ece \in Eces
    /\ enc_content \in Contents
    /\ rng \in RngOutcomes
    /\ rng_draws = <<>>
    /\ enc_pc = "start"
    /\ enc_out = NoResult
    /\ hdr_out = <<>>

\* http_ece.encrypt(content)
Encrypt ==
    /\ enc_pc = "start"
    /\ LET enc == HttpEce_encrypt(ece, enc_content, rng)
       IN  /\ enc_out' = enc.out
           /\ rng_draws' = rng_draws \o enc.draws
    /\ enc_pc' = "encrypt"
    /\ UNCHANGED <<ece, enc_content, rng, hdr_out>>

\* http_ece.generate_headers(public_key, salt), as the tests call it.
GenerateHeaders ==
    /\ enc_pc = "start"
    /\ rng.key.some /\ rng.salt.some
    /\ hdr_out' = generate_headers(ece, compute_public_key(rng.key.v), rng.salt.v)
    /\ enc_pc' = "generate_headers"
    /\ UNCHANGED <<ece, enc_content, rng, rng_draws, enc_out>>

\* Aes128Gcm::new(.., vapid_signature).headers()
Aes128GcmHeaders ==
    /\ enc_pc = "start"
    /\ ece.encoding = "Aes128Gcm"
    /\ hdr_out' = Aes128Gcm_headers(ece.vapid_signature)
    /\ enc_pc' = "aes128gcm_headers"
    /\ UNCHANGED <<ece, enc_content, rng, rng_draws, enc_out>>

EncryptNext ==
    /\ \/ Encrypt
       \/ GenerateHeaders
       \/ Aes128GcmHeaders
    /\ UNCHANGED <<classifyVars, sendVars, builderVars, requestVars, sessionVars, vapidVars, retryVars, concurrentVars, pemVars, nonceVars>>

SpecEncrypt == EncryptInit /\ [][EncryptNext]_vars

(***************************************************************************)
(* SpecBuilder: one WebPushMessageBuilder; any setters in any order, then  *)
(* build, then build_request on the message.                               *)
(***************************************************************************)
\* "https://push.example/x"
TestEndpoint ==
    <<104, 116, 116, 112, 115, 58, 47, 47, 112, 117, 115, 104, 46, 101, 120, 97, 109,
      112, 108, 101, 47, 120>>

\* "https://push example/x"
EndpointWithSpace ==
    <<104, 116, 116, 112, 115, 58, 47, 47, 112, 117, 115, 104, 32, 101, 120, 97, 109,
      112, 108, 101, 47, 120>>

\* The p256dh and auth of the tests' subscription, as the browser gives them.
TestP256dh == base64_encode_config(TestPeerPublicKey, URL_SAFE_NO_PAD)
TestAuth == base64_encode_config(TestPeerSecret, URL_SAFE_NO_PAD)

ValidSubscription == SubscriptionInfo_new(TestEndpoint, TestP256dh, TestAuth)

\* The valid subscription; one whose endpoint does not parse; one whose auth
\* is padded with '='; one whose p256dh decodes to 65 bytes that are no point;
\* one whose endpoint does not parse and whose auth is padded; one whose
\* p256dh starts with '!'.
Subscriptions ==
    { ValidSubscription,
      SubscriptionInfo_new(EndpointWithSpace, TestP256dh, TestAuth),
      SubscriptionInfo_new(TestEndpoint, TestP256dh, TestAuth \o <<61, 61>>),
      SubscriptionInfo_new(TestEndpoint,
                           base64_encode_config([i \in 1..65 |-> 0], URL_SAFE_NO_PAD),
                           TestAuth),
      SubscriptionInfo_new(EndpointWithSpace, TestP256dh, TestAuth \o <<61, 61>>),
      SubscriptionInfo_new(TestEndpoint, <<33>> \o TestP256dh, TestAuth) }

Ttls == {0, 60}

BuilderUrgencies == {"VeryLow", "High"}

\* The empty topic, "a_b-9Z", 32 and 33 letters, "bad topic", "a/b=", 31
\* letters and an e-acute (32 characters, 33 bytes), 16 e-acutes (32 bytes).
Topics ==
    { <<>>,
      <<97, 95, 98, 45, 57, 90>>,
      Rep(97, 32),
      Rep(97, 33),
      <<98, 97, 100, 32, 116, 111, 112, 105, 99>>,
      <<97, 47, 98, 61>>,
      Rep(97, 31) \o <<233>>,
      Rep(233, 16) }

BuilderContents == { Bytes(n, "plaintext") : n \in {22, 3052, 3053} }

\* The builder's fields and its subscription, as the setters were last called.
LastOf(self, si) ==
    [ttl |-> self.ttl, urgency |-> self.urgency, topic |-> self.topic,
     payload |-> self.payload, vapid_signature |-> self.vapid_signature,
     subscription_info |-> si]

BuilderInit ==
    /\ ClassifyIdle /\ SendIdle /\ EncryptIdle /\ RequestIdle /\ SessionIdle /\ VapidIdle /\ RetryIdle /\ ConcurrentIdle /\ PemIdle /\ NonceIdle
    /\ subscription_info \in Subscriptions
    /\ builder = WebPushMessageBuilder_new
    /\ last = LastOf(WebPushMessageBuilder_new, subscription_info)
    /\ b_pc = "new"
    /\ b_crypto = <<>>
    /\ built = NoResult
    /\ request = NoRequest

Building == b_pc \in {"new", "set"}

set_ttl(ttl) ==
    /\ Building
    /\ builder' = [builder EXCEPT !.ttl = ttl]
    /\ last' = [last EXCEPT !.ttl = ttl]
    /\ b_pc' = "set"
    /\ UNCHANGED <<subscription_info, b_crypto, built, request>>

set_urgency(urgency) ==
    /\ Building
    /\ builder' = [builder EXCEPT !.urgency = Some(urgency)]
    /\ last' = [last EXCEPT !.urgency = Some(urgency)]
    /\ b_pc' = "set"
    /\ UNCHANGED <<subscription_info, b_crypto, built, request>>

\* set_topic resetting the urgency.
set_topic_resets_urgency(topic) ==
    /\ Building
    /\ builder' = [builder EXCEPT !.topic = Some(topic), !.urgency = None]
    /\ last' = [last EXCEPT !.topic = Some(topic)]
    /\ b_pc' = "set"
    /\ UNCHANGED <<subscription_info, b_crypto, built, request>>

set_topic(topic) ==
    /\ Building
    /\ builder' = [builder EXCEPT !.topic = Some(topic)]
    /\ last' = [last EXCEPT !.topic = Some(topic)]
    /\ b_pc' = "set"
    /\ UNCHANGED <<subscription_info, b_crypto, built, request>>

set_vapid_signature(vapid_signature) ==
    /\ Building
    /\ builder' = [builder EXCEPT !.vapid_signature = Some(vapid_signature)]
    /\ last' = [last EXCEPT !.vapid_signature = Some(vapid_signature)]
    /\ b_pc' = "set"
    /\ UNCHANGED <<subscription_info, b_crypto, built, request>>

set_payload(encoding, data) ==
    /\ Building
    /\ builder' = [builder EXCEPT !.payload = Some(WebPushPayloadBuilder(data, encoding))]
    /\ last' = [last EXCEPT !.payload = Some(WebPushPayloadBuilder(data, encoding))]
    /\ b_pc' = "set"
    /\ UNCHANGED <<subscription_info, b_crypto, built, request>>

\* builder.build(), the rng yielding r to the encryptor.
Build(r) ==
    /\ LET res == build(builder, subscription_info, r)
       IN  /\ built' = res.out
           /\ b_crypto' = res.crypto
    /\ b_pc' = "built"
    /\ UNCHANGED <<subscription_info, builder, last, request>>

SetTtl == \E ttl \in Ttls : set_ttl(ttl)
SetUrgency == \E urgency \in BuilderUrgencies : set_urgency(urgency)
SetTopic == \E topic \in Topics : set_topic(topic)
SetVapidSignature == \E signature \in Signatures : set_vapid_signature(signature)
SetPayload ==
    \E encoding \in {"AesGcm", "Aes128Gcm"}, data \in BuilderContents :
        set_payload(encoding, data)
BuildMessage == Building /\ \E r \in RngOutcomes : Build(r)

\* build_request(message) on the message build returned.
BuildRequest ==
    /\ b_pc = "built" /\ built.ok
    /\ request' = build_request(built.v)
    /\ b_pc' = "requested"
    /\ UNCHANGED <<subscription_info, builder, last, b_crypto, built>>

BuilderNext ==
    /\ \/ SetTtl
       \/ SetUrgency
       \/ SetTopic
       \/ SetVapidSignature
       \/ SetPayload
       \/ BuildMessage
       \/ BuildRequest
    /\ UNCHANGED <<classifyVars, sendVars, encryptVars, requestVars, sessionVars, vapidVars, retryVars, concurrentVars, pemVars, nonceVars>>

SpecBuilder == BuilderInit /\ [][BuilderNext]_vars

(***************************************************************************)
(* SpecRequest: build_request applied to one WebPushMessage.               *)
(***************************************************************************)
AllUrgencies == {"VeryLow", "Low", "Normal", "High"}

\* One aesgcm payload with the three headers of the tests, one aes128gcm
\* payload with an Authorization header and one without crypto headers.
RequestPayloads ==
    { WebPushPayload(Bytes(3070, "ciphertext"),
                     << <<"Authorization", "WebPush foo">>,
                        <<"Crypto-Key", "dh=BBXp; p256ecdsa=bar">>,
                        <<"Encryption", "salt=YMcMuxqRkchXwy7vMwNl1Q">> >>,
                     "AesGcm"),
      WebPushPayload(Bytes(88, "ciphertext"),
                     << <<"Authorization", "vapid t=foo, k=bar">> >>,
                     "Aes128Gcm"),
      WebPushPayload(Bytes(230, "ciphertext"), <<>>, "Aes128Gcm") }

\* The topics: "some-topic" and the empty one.
RequestTopics == { <<115, 111, 109, 101, 45, 116, 111, 112, 105, 99>>, <<>> }

RequestMessages ==
    { WebPushMessage("https://fcm.googleapis.com/fcm/send/x", ttl, urgency, topic, payload)
        : ttl \in {0, 420, 2419200},
          urgency \in {None} \cup {Some(u) : u \in AllUrgencies},
          topic \in {None} \cup {Some(t) : t \in RequestTopics},
          payload \in {None} \cup {Some(p) : p \in RequestPayloads} }

RequestInit ==
    /\ ClassifyIdle /\ SendIdle /\ EncryptIdle /\ BuilderIdle /\ SessionIdle /\ VapidIdle /\ RetryIdle /\ ConcurrentIdle /\ PemIdle /\ NonceIdle
    /\ rq_msg \in RequestMessages
    /\ rq_out = NoRequest

\* build_request(message)
BuildRequestOf ==
    /\ rq_out = NoRequest
    /\ rq_out' = build_request(rq_msg)
    /\ UNCHANGED rq_msg
    /\ UNCHANGED <<classifyVars, sendVars, encryptVars, builderVars, sessionVars, vapidVars, retryVars, concurrentVars, pemVars, nonceVars>>

SpecRequest == RequestInit /\ [][BuildRequestOf]_vars

(***************************************************************************)
(* SpecSession: successive encrypt calls drawing on the one system rng,    *)
(* on the same HttpEce value or on a new one (another message, another     *)
(* subscription).  ring's SystemRandom is a CSPRNG: a value it yields is   *)
(* one it has not yielded before.                                          *)
(***************************************************************************)
MaxCalls == 2

\* The key pairs and the salts the rng yields, in the order it yields them.
KeyPairs == <<"k1", "k2", "k3">>

Salts == <<TestSalt, SecondSalt, ThirdSalt>>

SessionContents == { Bytes(n, "plaintext") : n \in {3052, 3053} }

\* The HttpEce values of two valid subscriptions, both encodings.
SessionEces ==
    { HttpEce_new(e, k, TestPeerSecret, None)
        : e \in {"AesGcm", "Aes128Gcm"}, k \in {TestPeerPublicKey, SecondPublicKey} }

\* What the rng can yield to the next call: generate fails, fill fails, or
\* the next key pair and the next salt.
FreshOutcomes ==
    LET k == KeyPairs[system_random.keys + 1]
        st == Salts[system_random.salts + 1]
    IN  { [key |-> None, salt |-> None],
          [key |-> Some(k), salt |-> None],
          [key |-> Some(k), salt |-> Some(st)] }

\* The number of values the rng has yielded once a call made the draws.
SystemRandom_after(r, draws) ==
    [keys |-> IF Len(draws) >= 1 /\ r.key.some
              THEN system_random.keys + 1 ELSE system_random.keys,
     salts |-> IF Len(draws) >= 2 /\ r.salt.some
               THEN system_random.salts + 1 ELSE system_random.salts]

SessionInit ==
    /\ ClassifyIdle /\ SendIdle /\ EncryptIdle /\ BuilderIdle /\ RequestIdle /\ VapidIdle /\ RetryIdle /\ ConcurrentIdle /\ PemIdle /\ NonceIdle
    /\ cur_ece \in SessionEces
    /\ system_random = [keys |-> 0, salts |-> 0]
    /\ encrypted = <<>>

\* http_ece.encrypt(content)
EncryptCall ==
    /\ Len(encrypted) < MaxCalls
    /\ system_random.keys < Len(KeyPairs) /\ system_random.salts < Len(Salts)
    /\ \E data \in SessionContents, r \in FreshOutcomes :
         LET enc == HttpEce_encrypt(cur_ece, data, r)
         IN  /\ encrypted' = Append(encrypted,
                                    [self |-> cur_ece, data |-> data, r |-> r,
                                     out |-> enc.out, draws |-> enc.draws])
             /\ system_random' = SystemRandom_after(r, enc.draws)
    /\ UNCHANGED cur_ece

\* HttpEce::new for the next message.
NewHttpEce ==
    /\ Len(encrypted) \in 1..(MaxCalls - 1)
    /\ cur_ece' \in SessionEces \ {cur_ece}
    /\ UNCHANGED <<system_random, encrypted>>

SessionNext ==
    /\ \/ EncryptCall
       \/ NewHttpEce
    /\ UNCHANGED <<classifyVars, sendVars, encryptVars, builderVars, requestVars, vapidVars, retryVars, concurrentVars, pemVars, nonceVars>>

SpecSession == SessionInit /\ [][SessionNext]_vars

(***************************************************************************)
(* SpecVapid: one PartialVapidSignatureBuilder made of a key file; clones  *)
(* of it get a subscription and claims and build signatures.               *)
(***************************************************************************)
\* The private key of the tests as SEC1 PEM, PKCS#8 PEM and DER, a second
\* key, and a file that holds no key.
KeyFiles ==
    { [format |-> f, key |-> "vapid_test_key"] : f \in {"sec1_pem", "pkcs8_pem", "der"} }
      \cup { [format |-> "sec1_pem", key |-> "second_key"], [format |-> "text", key |-> ""] }

\* "http://localhost:8080/push"
LocalEndpoint ==
    <<104, 116, 116, 112, 58, 47, 47, 108, 111, 99, 97, 108, 104, 111, 115, 116, 58, 56,
      48, 56, 48, 47, 112, 117, 115, 104>>

\* "/push"
PathOnlyEndpoint == <<47, 112, 117, 115, 104>>

VapidSubscriptions ==
    { SubscriptionInfo_new(e, TestP256dh, TestAuth)
        : e \in {TestEndpoint, LocalEndpoint, EndpointWithSpace, PathOnlyEndpoint} }

\* The claims a caller adds: "https://example.org", a timestamp,
\* "bar" and "mailto:admin@push.example".
CallerClaims ==
    [aud |-> [str |-> <<104, 116, 116, 112, 115, 58, 47, 47, 101, 120, 97, 109, 112, 108,
                        101, 46, 111, 114, 103>>],
     exp |-> [num |-> 1900000000],
     foo |-> [str |-> <<98, 97, 114>>],
     sub |-> [str |-> <<109, 97, 105, 108, 116, 111, 58, 97, 100, 109, 105, 110, 64, 112,
                        117, 115, 104, 46, 101, 120, 97, 109, 112, 108, 101>>]]

\* A 32-byte big-endian integer that starts with the given bytes.
FixedWidth(first) == first \o [i \in 1..(32 - Len(first)) |-> (17 * i) % 256]

\* The (r, s) of the signatures: both of 32 bytes in DER, r of 33, s of 31,
\* r of 31 with its first bit set, both of 30.
EcdsaSignatures ==
    { <<FixedWidth(<<1>>), FixedWidth(<<127>>)>>,
      <<FixedWidth(<<128>>), FixedWidth(<<2>>)>>,
      <<FixedWidth(<<3>>), FixedWidth(<<0, 127>>)>>,
      <<FixedWidth(<<0, 128>>), FixedWidth(<<255>>)>>,
      <<FixedWidth(<<0, 0, 1>>), FixedWidth(<<0, 0, 2>>)>> }

VapidClock == {1700000000, 1700003600}

VapidInit ==
    /\ ClassifyIdle /\ SendIdle /\ EncryptIdle /\ BuilderIdle /\ RequestIdle /\ SessionIdle /\ RetryIdle /\ ConcurrentIdle /\ PemIdle /\ NonceIdle
    /\ partial \in { PartialVapidSignatureBuilder_from(f, as) : f \in KeyFiles, as \in {"pem", "der"} }
    /\ sig_builder = None
    /\ utc_now \in VapidClock
    /\ signed = NoSigned
    /\ auth_keys = {}

\* partial.clone().add_sub_info(&subscription_info)
AddSubInfo ==
    /\ partial.ok
    /\ sig_builder = None
    /\ \E si \in VapidSubscriptions : sig_builder' = Some(add_sub_info(partial.v, si))
    /\ signed' = NoSigned
    /\ UNCHANGED <<partial, utc_now, auth_keys>>

\* sig_builder.add_claim(key, val)
AddClaim ==
    /\ sig_builder.some
    /\ \E key \in DOMAIN CallerClaims :
         sig_builder' = Some(add_claim(sig_builder.v, key, CallerClaims[key]))
    /\ UNCHANGED <<partial, utc_now, signed, auth_keys>>

\* sig_builder.build(): the builder is consumed.
BuildSignature ==
    /\ sig_builder.some
    /\ \E rs \in EcdsaSignatures :
         LET out == VapidSignatureBuilder_build(sig_builder.v, utc_now,
                                                sign_to_vec(rs[1], rs[2]))
         IN  /\ signed' = [self |-> sig_builder.v, now |-> utc_now,
                           r |-> rs[1], s |-> rs[2], out |-> out]
             /\ auth_keys' = IF out.ok THEN auth_keys \cup {out.v.auth_k} ELSE auth_keys
    /\ sig_builder' = None
    /\ UNCHANGED <<partial, utc_now>>

VapidNext ==
    /\ \/ AddSubInfo
       \/ AddClaim
       \/ BuildSignature
    /\ UNCHANGED <<classifyVars, sendVars, encryptVars, builderVars, requestVars, sessionVars, retryVars, concurrentVars, pemVars, nonceVars>>

SpecVapid == VapidInit /\ [][VapidNext]_vars

(***************************************************************************)
(* Specification: RetryAfter::from_str (error.rs) applied to header values *)
(* while the clock advances.                                               *)
(***************************************************************************)
\* The most digits of a power of ten among the header values.
MaxDigits == 9

\* "1", "10", "100", ...
PowerOfTen(k) == <<49>> \o [i \in 1..k |-> 48]

\* "18446744073709551616": u64::MAX + 1.
AboveU64 ==
    <<49, 56, 52, 52, 54, 55, 52, 52, 48, 55, 51, 55, 48, 57, 53, 53, 49, 54, 49, 54>>

\* Decimal seconds: powers of ten with and without '+', "0", "120", "007",
\* "5" after twenty zeros, u64::MAX + 1 with and without leading zero, and
\* 10^20.
DecimalValues ==
    { PowerOfTen(k) : k \in 0..(MaxDigits - 1) }
    \cup { <<43>> \o PowerOfTen(k) : k \in 0..(MaxDigits - 1) }
    \cup { <<48>>, <<49, 50, 48>>, <<48, 48, 55>>, [i \in 1..20 |-> 48] \o <<53>>,
           AboveU64, <<48>> \o AboveU64, PowerOfTen(20) }

\* "", "-5", "+", "-0", "1.5", "12a", " 5", "soon", and the first date in
\* ISO 8601: "2015-10-21T07:28:00Z".
OtherValues ==
    { <<>>, <<45, 53>>, <<43>>, <<45, 48>>, <<49, 46, 53>>, <<49, 50, 97>>, <<32, 53>>,
      <<115, 111, 111, 110>>,
      <<50, 48, 49, 53, 45, 49, 48, 45, 50, 49, 84, 48, 55, 58, 50, 56, 58, 48, 48, 90>> }

HeaderValues == DecimalValues \cup {DateOct2015, DateNov2023} \cup OtherValues

\* Clock readings: the first date's second, between the dates, the later
\* date's second, and after both.
SystemTimes == <<1445412480, 1700000000, 1700000080, 1700000100>>

RetryInit ==
    /\ system_time = SystemTimes[1]
    /\ retry_call = NoRetryCall
    /\ ClassifyIdle /\ SendIdle /\ EncryptIdle /\ BuilderIdle /\ RequestIdle /\ SessionIdle /\ VapidIdle /\ ConcurrentIdle /\ PemIdle /\ NonceIdle

\* RetryAfter::from_str(header_value).
FromStr ==
    /\ \E header_value \in HeaderValues :
         retry_call' = [done |-> TRUE, header_value |-> header_value, at |-> system_time,
                        out |-> RetryAfter_from_str(header_value, system_time)]
    /\ UNCHANGED system_time

\* Time passes.
ClockAdvances ==
    /\ \E i \in 1..(Len(SystemTimes) - 1) :
         system_time = SystemTimes[i] /\ system_time' = SystemTimes[i + 1]
    /\ UNCHANGED retry_call

RetryNext ==
    /\ \/ FromStr
       \/ ClockAdvances
    /\ UNCHANGED <<classifyVars, sendVars, encryptVars, builderVars, requestVars, sessionVars, vapidVars, concurrentVars, pemVars, nonceVars>>

SpecRetry == RetryInit /\ [][RetryNext]_vars

(***************************************************************************)
(* Concurrent sends: the locals of a call of send as a value, and the step *)
(* a call takes when it is resumed at a suspension point                   *)
(* (clients/hyper_client.rs, isahc_client.rs).                             *)
(***************************************************************************)
\* A call of send on the client self_ref, before its first poll.
SendCall(self_ref, msg) ==
    [self |-> self_ref, message |-> msg, pc |-> "start", resp |-> NoResponse,
     stream |-> <<>>, body_len |-> 0, retry_after |-> None, result |-> Pending]

\* send up to its first await.
call_request(call) == [call EXCEPT !.pc = "requesting"]

\* requesting.await fails.
call_transport_error(call) ==
    [call EXCEPT !.result = IF call.self = "isahc" THEN From_isahc_Error ELSE From_hyper_Error,
                 !.pc = "done"]

\* requesting.await yields a response, the clock reading t.
call_responds(call, response, t) ==
    [call EXCEPT !.resp = response,
                 !.retry_after = response_retry_after(response, t),
                 !.stream = response.chunks,
                 !.body_len = 0,
                 !.pc = "reading"]

\* The end of send.
call_return(call) ==
    LET response == parse_response(call.resp.status, accumulated_body(call.resp, call.body_len))
    IN  [call EXCEPT !.result = send_result(response, call.retry_after), !.pc = "done"]

RECURSIVE BodyBytes(_, _)
\* The bytes the calls of a set hold.
BodyBytes(all_calls, senders) ==
    IF senders = {} THEN 0
    ELSE LET j == CHOOSE j \in senders : TRUE
         IN  all_calls[j].body_len + BodyBytes(all_calls, senders \ {j})

\* body.extend(&chunk) on one Vec that every call of the client appends to.
body_extend_shared(all_calls, i, n) == BodyBytes(all_calls, DOMAIN all_calls) + n

\* body.extend(&chunk): the length of the call's own Vec after it.
body_extend(all_calls, i, n) == all_calls[i].body_len + n

\* hyper: the call is resumed at chunks.data().await.
hyper_poll(all_calls, i) ==
    LET call == all_calls[i]
    IN  IF call.stream = <<>>
        THEN call_return(call)
        ELSE IF Head(call.stream) = ChunkError
        THEN [call EXCEPT !.stream = Tail(call.stream), !.result = From_hyper_Error,
                          !.pc = "done"]
        ELSE LET len == body_extend(all_calls, i, Head(call.stream))
             IN  IF len > MAX_RESPONSE_SIZE
                 THEN [call EXCEPT !.stream = Tail(call.stream), !.body_len = len,
                                   !.result = Err("ResponseTooLarge"), !.pc = "done"]
                 ELSE [call EXCEPT !.stream = Tail(call.stream), !.body_len = len]

\* isahc: the call is resumed in read_to_end(...).await.
isahc_poll(all_calls, i) ==
    LET call == all_calls[i]
        left == (MAX_RESPONSE_SIZE + 1) - call.body_len
    IN  IF call.stream = <<>> \/ left <= 0
        THEN IF call.body_len > MAX_RESPONSE_SIZE
             THEN [call EXCEPT !.result = Err("ResponseTooLarge"), !.pc = "done"]
             ELSE call_return(call)
        ELSE IF Head(call.stream) = ChunkError
        THEN [call EXCEPT !.stream = Tail(call.stream), !.result = From_IoError,
                          !.pc = "done"]
        ELSE LET n == IF Head(call.stream) <= left THEN Head(call.stream) ELSE left
             IN  [call EXCEPT !.body_len = body_extend(all_calls, i, n),
                              !.stream = IF n < Head(call.stream)
                                         THEN <<Head(call.stream) - n>> \o Tail(call.stream)
                                         ELSE Tail(call.stream)]

\* A call that is reading its body is resumed.
call_poll(all_calls, i) ==
    IF all_calls[i].self = "isahc" THEN isahc_poll(all_calls, i) ELSE hyper_poll(all_calls, i)

(***************************************************************************)
(* Specification: MaxSenders tasks call send on one client at once; the    *)
(* scheduler resumes them in any order.                                    *)
(***************************************************************************)
\* The number of tasks that send at once.
MaxSenders == 2

Senders == 1..MaxSenders

\* The message of each task: its own endpoint and TTL.
SenderMessage(i) ==
    WebPushMessage("https://push.example/" \o ToDecimal(i), 60 * i, None, None, None)

\* An empty 200; a 503 with "120" and a body of exactly the cap; a 500 with
\* a date and a body over the cap; a 410 with the test's ErrorInfo in two
\* chunks; a 429 whose body fails after one byte.
ConcurrentResponses ==
    { Response(200, None, <<>>, "utf8", NoInfo, ""),
      Response(503, Some(<<49, 50, 48>>), <<MAX_RESPONSE_SIZE>>, "utf8", NoInfo, "Gone"),
      Response(500, Some(DateNov2023), <<1, MAX_RESPONSE_SIZE>>, "not_utf8", NoInfo, ""),
      Response(410, None, <<93, 1>>, "error_info_json", TestErrorInfo, ""),
      Response(429, Some(<<115, 111, 111, 110>>), <<1, ChunkError>>, "utf8", NoInfo, "Gone") }

ConcurrentClock == <<1700000000, 1700000100>>

ConcurrentInit ==
    /\ shared \in {"hyper", "isahc"}
    /\ in_flight = <<>>
    /\ calls = [i \in Senders |-> SendCall(shared, SenderMessage(i))]
    /\ delivered = [i \in Senders |-> None]
    /\ wall_clock = ConcurrentClock[1]
    /\ ClassifyIdle /\ SendIdle /\ EncryptIdle /\ BuilderIdle /\ RequestIdle /\ SessionIdle /\ VapidIdle /\ RetryIdle /\ PemIdle /\ NonceIdle

\* Task i is polled first: the request is built and handed to the client.
CallRequests(i) ==
    /\ calls[i].pc = "start"
    /\ in_flight' = Append(in_flight, [from |-> i, request |-> build_request(calls[i].message)])
    /\ calls' = [calls EXCEPT ![i] = call_request(@)]
    /\ UNCHANGED <<shared, delivered, wall_clock>>

\* The request of task i fails in the transport.
CallFails(i) ==
    /\ calls[i].pc = "requesting"
    /\ calls' = [calls EXCEPT ![i] = call_transport_error(@)]
    /\ UNCHANGED <<shared, in_flight, delivered, wall_clock>>

\* The response to the request of task i arrives and the task is resumed.
CallResponds(i) ==
    /\ calls[i].pc = "requesting"
    /\ \E response \in ConcurrentResponses :
         /\ delivered' = [delivered EXCEPT ![i] = Some([response |-> response, at |-> wall_clock])]
         /\ calls' = [calls EXCEPT ![i] = call_responds(@, response, wall_clock)]
    /\ UNCHANGED <<shared, in_flight, wall_clock>>

\* A chunk of the body of task i, or its end, arrives and the task is
\* resumed.
CallReads(i) ==
    /\ calls[i].pc = "reading"
    /\ calls' = [calls EXCEPT ![i] = call_poll(calls, i)]
    /\ UNCHANGED <<shared, in_flight, delivered, wall_clock>>

TimePasses ==
    /\ wall_clock = ConcurrentClock[1]
    /\ wall_clock' = ConcurrentClock[2]
    /\ UNCHANGED <<shared, in_flight, calls, delivered>>

ConcurrentNext ==
    /\ \/ \E i \in Senders : CallRequests(i)
       \/ \E i \in Senders : CallFails(i)
       \/ \E i \in Senders : CallResponds(i)
       \/ \E i \in Senders : CallReads(i)
       \/ TimePasses
    /\ UNCHANGED <<classifyVars, sendVars, encryptVars, builderVars, requestVars, sessionVars, vapidVars, retryVars, pemVars, nonceVars>>

SpecConcurrent == ConcurrentInit /\ [][ConcurrentNext]_vars

(***************************************************************************)
(* Specification: read_pem (vapid/builder.rs) applied to one PEM input of  *)
(* up to MaxSections sections.                                             *)
(***************************************************************************)
\* The most sections of a PEM input.
MaxSections == 2

\* A PKCS#8 and a SEC1 section for each of two keys, and two sections that
\* hold no private key.
Sections ==
    { [tag |-> t, key |-> k] : t \in {"PRIVATE KEY", "EC PRIVATE KEY"},
                              k \in {"vapid_test_key", "second_key"} }
    \cup { [tag |-> "EC PARAMETERS", key |-> ""], [tag |-> "CERTIFICATE", key |-> ""] }

PemInputs ==
    { PemInput(TRUE, ss) : ss \in UNION { [1..n -> Sections] : n \in 0..MaxSections } }
    \cup { PemInput(FALSE, <<>>) }

PemInit ==
    /\ pem_input \in PemInputs
    /\ pem_reader \in {"tagged", "first"}
    /\ pem_out = NoResult
    /\ ClassifyIdle /\ SendIdle /\ EncryptIdle /\ BuilderIdle /\ RequestIdle /\ SessionIdle /\ VapidIdle /\ RetryIdle /\ ConcurrentIdle /\ NonceIdle

\* VapidSignatureBuilder::read_pem(input)
ReadPem ==
    /\ pem_out = NoResult
    /\ pem_out' = read_pem(pem_input, pem_reader)
    /\ UNCHANGED <<pem_input, pem_reader>>
    /\ UNCHANGED <<classifyVars, sendVars, encryptVars, builderVars, requestVars, sessionVars, vapidVars, retryVars, concurrentVars, nonceVars>>

SpecPem == PemInit /\ [][ReadPem]_vars

(***************************************************************************)
(* Specification: one EceNonce (http_ece.rs); fill and advance are called  *)
(* on it in any order, and aes_gcm makes, fills and uses a new one.        *)
(***************************************************************************)
\* The most calls made on the EceNonce.
MaxNonceCalls == 4

\* Nonces of 12 bytes, of 11, of 13, and the empty one.
NonceValues ==
    { [i \in 1..12 |-> i], [i \in 1..12 |-> 255], [i \in 1..11 |-> i], [i \in 1..13 |-> i], <<>> }

NonceCall(op, nonce, out, by) == [op |-> op, nonce |-> nonce, out |-> out, by |-> by]

NonceInit ==
    /\ ece_nonce = EceNonce_default
    /\ nonce_log = <<>>
    /\ ClassifyIdle /\ SendIdle /\ EncryptIdle /\ BuilderIdle /\ RequestIdle /\ SessionIdle /\ VapidIdle /\ RetryIdle /\ ConcurrentIdle /\ PemIdle

\* nonce.fill(n)
NonceFill ==
    /\ Len(nonce_log) < MaxNonceCalls
    /\ \E n \in NonceValues :
         /\ ece_nonce' = EceNonce_fill(ece_nonce, n)
         /\ nonce_log' = Append(nonce_log, NonceCall("fill", n, NoResult, "caller"))

\* nonce.advance()
NonceAdvance ==
    /\ Len(nonce_log) < MaxNonceCalls
    /\ LET call == EceNonce_advance(ece_nonce)
       IN  /\ ece_nonce' = call.self
           /\ nonce_log' = Append(nonce_log, NonceCall("advance", ece_nonce.nonce, call.out, "caller"))

\* The end of aes_gcm: a new EceNonce is filled with the 12 bytes expanded
\* for the nonce, and the sealing key advances it once.
AesGcmSeals ==
    /\ Len(nonce_log) + 2 <= MaxNonceCalls
    /\ \E private_key \in {"k1", "k2"} :
         LET sealed == aesgcm_content(HttpEce_new("AesGcm", TestPeerPublicKey, TestPeerSecret, None),
                                      Bytes(22, "plaintext"), private_key, TestSalt)
             nonce_bytes == okm_bytes(sealed.nonce, IF private_key = "k1" THEN 17 ELSE 34)
             filled == EceNonce_fill(EceNonce_default, nonce_bytes)
             call == EceNonce_advance(filled)
         IN  /\ ece_nonce' = call.self
             /\ nonce_log' = nonce_log
                   \o << NonceCall("fill", nonce_bytes, NoResult, "aes_gcm"),
                         NonceCall("advance", nonce_bytes, call.out, "aes_gcm") >>

NonceNext ==
    /\ \/ NonceFill
       \/ NonceAdvance
       \/ AesGcmSeals
    /\ UNCHANGED <<classifyVars, sendVars, encryptVars, builderVars, requestVars, sessionVars, vapidVars, retryVars, concurrentVars, pemVars>>

SpecNonce == NonceInit /\ [][NonceNext]_vars

(***************************************************************************)
(* Claims about the classifier and send                                    *)
(***************************************************************************)
\* The outcome the status table gives a status.
TableOutcome(status) ==
    CASE status \in 200..299 -> "Ok"
      [] status = 400 -> "BadRequest"
      [] status = 401 -> "Unauthorized"
      [] status = 404 -> "EndpointNotFound"
      [] status = 410 -> "EndpointNotValid"
      [] status = 413 -> "PayloadTooLarge"
      [] status \in 500..599 -> "ServerError"
      [] OTHER -> "Other"

\* C1: parse_response is total over the statuses 100..599: it returns the
\* one outcome the status table names (Ok for 2xx, BadRequest for 400,
\* Unauthorized for 401, EndpointNotFound for 404, EndpointNotValid for 410,
\* PayloadTooLarge for 413, ServerError with retry_after None for 5xx, Other
\* for the rest), and no body changes the variant.
C1_ClassifierTable ==
    cl_out # Pending =>
        /\ cl_out.kind = TableOutcome(cl_status)
        /\ (cl_out.kind = "ServerError" => cl_out.retry_after = None)
        /\ \A b \in ClassifyBodies : parse_response(cl_status, b).kind = cl_out.kind

C1_Witness ==
    /\ cl_status = 410
    /\ cl_out.kind = "EndpointNotValid"
    /\ cl_body.form = "error_info_json"

\* A read of the body failed, or the request did.
TransportFailed == result.kind \in {"Unspecified", "IoError"}

\* C2: absent a transport error, send returns ResponseTooLarge exactly when
\* the response body has more than 65,536 bytes: a body of exactly 65,536
\* bytes is classified, a larger one never is, and once the accumulated
\* count exceeds the cap no read of a further chunk is possible.
C2_ResponseSizeCap ==
    /\ (pc = "done" /\ resp # NoResponse /\ ~TransportFailed) =>
          /\ (result.kind = "ResponseTooLarge") <=> (TotalBytes(resp.chunks) > 65536)
          /\ (TotalBytes(resp.chunks) = 65536) => (parsed # Pending /\ body_len = 65536)
          /\ (TotalBytes(resp.chunks) > 65536) => (parsed = Pending)
    /\ (body_len > 65536) => (~ENABLED HyperReadChunk /\ ~ENABLED IsahcRead)

C2_Witness ==
    /\ pc = "done"
    /\ client = "hyper"
    /\ resp.chunks = <<65537, 1>>
    /\ result.kind = "ResponseTooLarge"
    /\ stream = <<1>>

\* A second witness of C2: a body of exactly the cap is classified.
C2_WitnessAtCap ==
    /\ pc = "done"
    /\ client = "isahc"
    /\ TotalBytes(resp.chunks) = 65536
    /\ parsed # Pending

\* The Retry-After values of RetryAfterHeaders, read at clock reading t.
HeaderDuration(h, t) ==
    CASE h = Some(<<49, 50, 48>>) -> Some(120)
      [] h = Some(DateOct2015) -> Some(0)
      [] h = Some(DateNov2023) -> Some(IF t < 1700000080 THEN 1700000080 - t ELSE 0)
      [] OTHER -> None

\* What the claim says send returns for a 5xx response.
ServerErrorWithHeader ==
    /\ result.kind = "ServerError"
    /\ result.retry_after = HeaderDuration(resp.retry_after_header, now)
    /\ parsed.kind = "ServerError"
    /\ result.info = parsed.info

\* The body of the response arrives whole and within the cap.
BodyArrives(response) ==
    /\ \A i \in 1..Len(response.chunks) : response.chunks[i] # ChunkError
    /\ TotalBytes(response.chunks) <= 65536

\* C3, as stated: for every 5xx response send returns ServerError with the
\* header's retry_after and the classifier's info (a failed read of the
\* body set aside).
C3_Original ==
    (pc = "done" /\ resp # NoResponse /\ resp.status \in 500..599 /\ ~TransportFailed) =>
        ServerErrorWithHeader

\* C3, amended: for every 5xx response whose body is read to its end without
\* error and within 65,536 bytes, send returns ServerError whose retry_after
\* is the value parsed from the Retry-After header (None when it is missing
\* or unparsable) and whose info is the classifier's.
C3_ServerErrorRetryAfter ==
    (pc = "done" /\ resp # NoResponse /\ resp.status \in 500..599 /\ BodyArrives(resp)) =>
        ServerErrorWithHeader

C3_Witness ==
    /\ pc = "done"
    /\ resp.status = 500
    /\ resp.retry_after_header = Some(<<49, 50, 48>>)
    /\ resp.form = "utf8"
    /\ result = ServerError(Some(120), ErrorInfo(500, 999, "unknown error", "Gone"))

C4_WitnessAtLimit ==
    /\ enc_pc = "encrypt"
    /\ enc_content.len = 3052
    /\ enc_out.ok
    /\ rng_draws = <<"generate", "fill">>

\* The text of auth_k as a signature of the model stores it.
StoredAuthK(signature) ==
    IF signature.auth_t = "foo"
    THEN "bar"
    ELSE "BMo1HqKF6skMZYykrte9duqYwBD08mDQKTunRkJdD3sTJ9E-yyN6sJlPWTpKNhp-y2KeS6oANHF-q3w37bClb7U"

\* base64url of the bytes of auth_k, for the signatures of the model.
EncodedAuthK(signature) ==
    IF signature.auth_t = "foo"
    THEN "YmFy"
    ELSE "Qk1vMUhxS0Y2c2tNWll5a3J0ZTlkdXFZd0JEMDhtRFFLVHVuUmtKZEQzc1RKOUUteXlONnNKbFBXVHBLTmhwLXkyS2VTNm9BTkhGLXEzdzM3YkNsYjdV"

\* The aes128gcm header list with a given text after "k=".
Aes128GcmHeaderList(k) ==
    IF ece.vapid_signature.some
    THEN << <<"Authorization",
              "vapid t=" \o ece.vapid_signature.v.auth_t \o ", k=" \o k>> >>
    ELSE <<>>

C9_WitnessSigned ==
    /\ enc_pc = "aes128gcm_headers"
    /\ ece.vapid_signature.some
    /\ ece.vapid_signature.v.auth_k = VapidSigner_auth_k(VapidTestPublicKey)
    /\ hdr_out = << <<"Authorization", "vapid t=h.c.s, k=BMo1HqKF6skMZYykrte9duqYwBD08mDQKTunRkJdD3sTJ9E-yyN6sJlPWTpKNhp-y2KeS6oANHF-q3w37bClb7U">> >>

\* base64url, unpadded, of the ephemeral public keys and salts of the model.
DhText(private_key) ==
    IF private_key = "k1"
    THEN "BBXpqeMbtt1iwSoYzs7uRL-QVSKTAuAPrunJoNyW2wMKeVBUyNFCqbkmpVTZOVbqWpwpr_-6TpJvk1qT8T-iOYs"
    ELSE "BH1HTeKM7-NwaLGHEqxeu2IamQaVVLkcsFHPIHmsCnqxcBHPQBprF41bEMOr3O1hUQ2jU1opNEm1F_lZV_sxMP8"

SaltText(salt) ==
    IF salt = TestSalt THEN "YMcMuxqRkchXwy7vMwNl1Q" ELSE "AAECAwQFBgcICQoLDA0ODw"

\* The aesgcm header list with a given text after "p256ecdsa=".
AesGcmHeaderList(k) ==
    LET dh == "dh=" \o DhText(rng.key.v)
        encryption == <<"Encryption", "salt=" \o SaltText(rng.salt.v)>>
    IN  IF ece.vapid_signature.some
        THEN << <<"Authorization", "WebPush " \o ece.vapid_signature.v.auth_t>>,
                <<"Crypto-Key", dh \o "; p256ecdsa=" \o k>>,
                encryption >>
        ELSE << <<"Crypto-Key", dh>>, encryption >>

\* An aesgcm header list was produced, by encrypt or by generate_headers.
AesGcmHeadersMade ==
    /\ ece.encoding = "AesGcm"
    /\ enc_pc = "generate_headers" \/ (enc_pc = "encrypt" /\ enc_out.ok)

AesGcmHeaders == IF enc_pc = "encrypt" THEN enc_out.v.crypto_headers ELSE hdr_out

Base64UrlAlphabet == (65..90) \cup (97..122) \cup (48..57) \cup {45, 95}

\* At most 32 characters, each of the base64url alphabet.
TopicAllowed(t) == Len(t) <= 32 /\ \A i \in 1..Len(t) : t[i] \in Base64UrlAlphabet

\* build has returned for a builder with a topic, a valid endpoint and
\* valid keys.
BuiltWithTopic ==
    /\ b_pc \in {"built", "requested"}
    /\ builder.topic.some
    /\ subscription_info = ValidSubscription

\* The rng failed, or the payload's encoding is the one encrypt does not
\* implement.
EncryptorUnavailable == ~built.ok /\ built.err \in {"Unspecified", "NotImplemented"}

C5_WitnessAccepted ==
    /\ BuiltWithTopic
    /\ builder.topic.v = Rep(97, 32)
    /\ built.ok
    /\ built.v.topic = Some(Rep(97, 32))

\* C7: when no payload was set, build() decodes no key, calls no encryptor
\* and uses no rng, the message it yields has payload None, and the request
\* built from it has an empty body and no Content-Encoding, Content-Type,
\* Authorization, Crypto-Key or Encryption header, also after
\* set_vapid_signature.
C7_NoPayloadNoCrypto ==
    (b_pc \in {"built", "requested"} /\ ~builder.payload.some) =>
        /\ b_crypto = <<>>
        /\ built.ok => built.v.payload = None
        /\ (b_pc = "requested") =>
              /\ request.body.len = 0
              /\ \A i \in 1..Len(request.headers) :
                    request.headers[i][1] \notin
                        {"Content-Encoding", "Content-Type", "Authorization",
                         "Crypto-Key", "Encryption"}

C7_Witness ==
    /\ b_pc = "requested"
    /\ ~builder.payload.some
    /\ builder.vapid_signature = Some(VapidSignature("foo", <<98, 97, 114>>))
    /\ request.headers = << <<"TTL", "2419200">> >>
    /\ request.body.len = 0

TtlText(ttl) ==
    CASE ttl = 0 -> "0"
      [] ttl = 420 -> "420"
      [] ttl = 2419200 -> "2419200"

UrgencyText(urgency) ==
    CASE urgency = "VeryLow" -> "very-low"
      [] urgency = "Low" -> "low"
      [] urgency = "Normal" -> "normal"
      [] urgency = "High" -> "high"

TopicText(topic) == IF topic = <<>> THEN "" ELSE "some-topic"

LengthText(len) ==
    CASE len = 3070 -> "3070"
      [] len = 88 -> "88"
      [] len = 230 -> "230"

EncodingText(encoding) == IF encoding = "AesGcm" THEN "aesgcm" ELSE "aes128gcm"

\* The header list the claim gives a message.
ClaimedHeaders(m) ==
    << <<"TTL", TtlText(m.ttl)>> >>
    \o (IF m.urgency.some THEN << <<"Urgency", UrgencyText(m.urgency.v)>> >> ELSE <<>>)
    \o (IF m.topic.some THEN << <<"Topic", TopicText(m.topic.v)>> >> ELSE <<>>)
    \o (IF m.payload.some
        THEN << <<"Content-Encoding", EncodingText(m.payload.v.content_encoding)>>,
                <<"Content-Length", LengthText(m.payload.v.content.len)>>,
                <<"Content-Type", "application/octet-stream">> >>
             \o m.payload.v.crypto_headers
        ELSE <<>>)

HeaderNamed(headers, name) ==
    LET found == { i \in 1..Len(headers) : headers[i][1] = name }
    IN  IF found = {} THEN None ELSE Some(headers[CHOOSE i \in found : TRUE][2])

ReceivedKeys(headers) ==
    { k \in {KeyPairs[i] : i \in 1..Len(KeyPairs)} :
        HeaderNamed(headers, "Crypto-Key")
          = Some("dh=" \o ToStr(base64_encode_config(compute_public_key(k), URL_SAFE_NO_PAD))) }

ReceivedSalts(headers) ==
    { st \in {Salts[i] : i \in 1..Len(Salts)} :
        HeaderNamed(headers, "Encryption")
          = Some("salt=" \o ToStr(base64_encode_config(st, URL_SAFE_NO_PAD))) }

UaOpen(content, ua_public_key, ua_auth, as_public_key, salt) ==
    LET context == [curve |-> "P-256",
                    first_len |-> <<0, 65>>, first |-> ua_public_key,
                    second_len |-> <<0, 65>>, second |-> as_public_key]
        prk == hkdf_extract_expand(ua_auth, [ecdh |-> {ua_public_key, as_public_key}],
                                   [label |-> "Content-Encoding: auth"], 32)
        key == hkdf_extract_expand(salt, prk,
                                   [label |-> "Content-Encoding: aesgcm", context |-> context], 16)
        nonce == hkdf_extract_expand(salt, prk,
                                     [label |-> "Content-Encoding: nonce", context |-> context], 12)
    IN  IF content.key = key /\ content.nonce = nonce /\ content.aad = <<>>
        THEN LET p == content.sealed
                 padding == p.padding[1] * 256 + p.padding[2]
             IN  IF p.zeros = padding /\ p.data_at = 2 + padding /\ p.len = p.data_at + p.data.len
                 THEN Some(p.data) ELSE None
        ELSE None

UaDecrypt(payload, ua_public_key, ua_auth) ==
    IF payload.content_encoding # "AesGcm" THEN None
    ELSE LET ks == ReceivedKeys(payload.crypto_headers)
             sts == ReceivedSalts(payload.crypto_headers)
         IN  IF Cardinality(ks) # 1 \/ Cardinality(sts) # 1 THEN None
             ELSE UaOpen(payload.content, ua_public_key, ua_auth,
                         compute_public_key(CHOOSE k \in ks : TRUE),
                         CHOOSE st \in sts : TRUE)

\* Two calls that encrypt the same plaintext, of at most 3052 bytes, under
\* the same subscription, the rng failing in neither.
EncryptedTwice(i, j) ==
    /\ i < j
    /\ encrypted[i].data = encrypted[j].data
    /\ encrypted[i].data.len <= 3052
    /\ encrypted[i].self.peer_public_key = encrypted[j].self.peer_public_key
    /\ encrypted[i].self.peer_secret = encrypted[j].self.peer_secret
    /\ \A c \in {i, j} : encrypted[c].r.key.some /\ encrypted[c].r.salt.some

RoundTrip(i, j) ==
    /\ encrypted[i].out.ok /\ encrypted[j].out.ok
    /\ encrypted[i].out.v.content # encrypted[j].out.v.content
    /\ \A c \in {i, j} :
         UaDecrypt(encrypted[c].out.v, encrypted[c].self.peer_public_key,
                   encrypted[c].self.peer_secret) = Some(encrypted[c].data)

\* C11: a payload of at most 3052 bytes encrypted twice under a valid
\* subscription gives two different ciphertexts, and each decrypts under
\* the subscription's private key and auth secret to the payload.
C11_EncryptTwice ==
    \A i, j \in 1..Len(encrypted) : EncryptedTwice(i, j) => RoundTrip(i, j)

\* The same of the aesgcm encoding alone, where encrypt is implemented.
AesGcmEncryptTwice ==
    \A i, j \in 1..Len(encrypted) :
        /\ EncryptedTwice(i, j)
        /\ encrypted[i].self.encoding = "AesGcm" /\ encrypted[j].self.encoding = "AesGcm"
        => RoundTrip(i, j)

AesGcmEncryptedTwice ==
    \E i, j \in 1..Len(encrypted) :
        /\ EncryptedTwice(i, j)
        /\ encrypted[i].self.encoding = "AesGcm" /\ encrypted[j].self.encoding = "AesGcm"
        /\ encrypted[i].self = encrypted[j].self
        /\ encrypted[i].data.len = 3052

\* The headers of an aesgcm payload made with the given key pair and salt,
\* no VAPID signature.
OwnHeaders(private_key, salt) ==
    << <<"Crypto-Key",
         "dh=" \o ToStr(base64_encode_config(compute_public_key(private_key), URL_SAFE_NO_PAD))>>,
       <<"Encryption", "salt=" \o ToStr(base64_encode_config(salt, URL_SAFE_NO_PAD))>> >>

\* The payload of call c is made of the key pair and the salt the rng
\* yielded to call c: the ECDH secret, the context, the HKDF salt of the
\* key and of the nonce, and the headers.
UsesOwnDraws(c) ==
    LET e == encrypted[c]
        content == e.out.v.content
        public_key == compute_public_key(e.r.key.v)
    IN  e.out.ok =>
          /\ e.out.v.crypto_headers = OwnHeaders(e.r.key.v, e.r.salt.v)
          /\ content.key.ikm.ikm = [ecdh |-> {public_key, e.self.peer_public_key}]
          /\ content.key.info.context.second = public_key
          /\ content.nonce.info.context.second = public_key
          /\ content.key.ikm = content.nonce.ikm
          /\ content.key.hkdf_salt = e.r.salt.v
          /\ content.nonce.hkdf_salt = e.r.salt.v

\* No key pair and no salt of an earlier call is in the payload of call c.
NothingReused(c) ==
    \A b \in 1..(c - 1) :
        encrypted[b].out.ok /\ encrypted[c].out.ok =>
          /\ encrypted[b].out.v.content.key.ikm.ikm # encrypted[c].out.v.content.key.ikm.ikm
          /\ encrypted[b].out.v.content.key.hkdf_salt # encrypted[c].out.v.content.key.hkdf_salt
          /\ encrypted[b].out.v.crypto_headers[1] # encrypted[c].out.v.crypto_headers[1]
          /\ encrypted[b].out.v.crypto_headers[2] # encrypted[c].out.v.crypto_headers[2]

\* C12, as stated: every encrypt call that passes the size check draws
\* exactly one new salt and generates exactly one new key pair, uses only
\* those for its key derivation and headers, and reuses none of an earlier
\* call.
C12_Original ==
    \A c \in 1..Len(encrypted) :
        encrypted[c].data.len <= 3052 =>
          /\ encrypted[c].draws = <<"generate", "fill">>
          /\ encrypted[c].r.key.some /\ encrypted[c].r.salt.some
          /\ UsesOwnDraws(c)
          /\ NothingReused(c)

\* C12, amended: every encrypt call that passes the size check asks the rng
\* for exactly one key pair and, unless that fails, for exactly one salt;
\* a payload it returns is made of those two only, and of no key pair or
\* salt of an earlier call, on the same HttpEce value or another.
C12_FreshPerCall ==
    \A c \in 1..Len(encrypted) :
        encrypted[c].data.len <= 3052 =>
          /\ encrypted[c].draws
               = IF encrypted[c].r.key.some THEN <<"generate", "fill">> ELSE <<"generate">>
          /\ encrypted[c].out.ok => encrypted[c].r.key.some /\ encrypted[c].r.salt.some
          /\ UsesOwnDraws(c)
          /\ NothingReused(c)

\* Two payloads made on the same HttpEce value.
C12_Witness ==
    /\ Len(encrypted) = 2
    /\ encrypted[1].self = encrypted[2].self
    /\ encrypted[1].out.ok /\ encrypted[2].out.ok
    /\ encrypted[2].r.key = Some("k2")

\* Two payloads for two subscriptions.
C12_WitnessOtherSubscription ==
    /\ Len(encrypted) = 2
    /\ encrypted[1].self.peer_public_key # encrypted[2].self.peer_public_key
    /\ encrypted[1].out.ok /\ encrypted[2].out.ok

(***************************************************************************)
(* Claims about VAPID signatures                                           *)
(***************************************************************************)
RECURSIVE SplitOn(_, _)
\* The parts of s between the occurrences of the character c.
SplitOn(s, c) ==
    LET at == { i \in 1..Len(s) : s[i] = c }
    IN  IF at = {} THEN <<s>>
        ELSE LET i == CHOOSE i \in at : \A j \in at : i <= j
             IN  <<SubSeq(s, 1, i - 1)>> \o SplitOn(SubSeq(s, i + 1, Len(s)), c)

\* The dot-separated segments of the auth_t that was built.
AuthTSegments == SplitOn(signed.out.v.auth_t, 46)

IsBase64UrlText(s) == s # <<>> /\ \A i \in 1..Len(s) : Base64UrlValue(s[i]) >= 0

\* The JSON text that was signed: the second segment, decoded.
SignedClaims == Base64UrlSafeNoPadding_decode_to_vec(AuthTSegments[2]).v

\* Where the pattern occurs in the text.
Occurrences(text, pattern) ==
    { i \in 1..(Len(text) - Len(pattern) + 1) :
        SubSeq(text, i, i + Len(pattern) - 1) = pattern }

\* "<key>": in JSON.
JsonKey(key) == <<34>> \o key \o <<34, 58>>

\* The signed claims hold the key once, and with this value.
SignedOnce(key, val) ==
    /\ Cardinality(Occurrences(SignedClaims, JsonKey(key))) = 1
    /\ \E end \in {44, 125} :
         Occurrences(SignedClaims, JsonKey(key) \o Value_to_string(val) \o <<end>>) # {}

\* C13: auth_t is three dot-separated base64url segments, and the third
\* decodes to 64 bytes: R then S, each in exactly 32 bytes (left-padded with
\* zeros when shorter, without the DER sign byte when it has 33).
C13_JoseSignature ==
    signed.out.ok =>
        /\ Len(AuthTSegments) = 3
        /\ \A i \in 1..3 : IsBase64UrlText(AuthTSegments[i])
        /\ Base64UrlSafeNoPadding_decode_to_vec(AuthTSegments[3]) = Some(signed.r \o signed.s)
        /\ Len(signed.r \o signed.s) = 64

\* The same of the signatures whose R and S both take 32 or 33 bytes in DER.
FullWidthSignature ==
    signed.out.ok /\ signed.r[1] # 0 /\ signed.s[1] # 0 =>
        /\ Len(AuthTSegments) = 3
        /\ \A i \in 1..3 : IsBase64UrlText(AuthTSegments[i])
        /\ Base64UrlSafeNoPadding_decode_to_vec(AuthTSegments[3]) = Some(signed.r \o signed.s)

\* C14: auth_k is the 65-byte uncompressed public key (first byte 4) of the
\* private key that signed, equal to get_public_key() of the builder, and
\* the same for every clone and every subscription.
C14_AuthKIsPublicKey ==
    signed.out.ok =>
        /\ signed.out.v.auth_k = get_public_key(partial.v)
        /\ Len(signed.out.v.auth_k) = 65
        /\ signed.out.v.auth_k[1] = 4
        /\ auth_keys = {get_public_key(partial.v)}

\* What the code stores instead: the base64url text of that key.
AuthKIsPublicKeyText ==
    signed.out.ok =>
        /\ signed.out.v.auth_k
             = base64_encode_config(get_public_key(partial.v), URL_SAFE_NO_PAD)
        /\ auth_keys = {signed.out.v.auth_k}

\* The endpoint's "<scheme>://<host>".
EndpointOrigin(endpoint) ==
    SubSeq(endpoint, 1, SchemeEnd(endpoint) + 2) \o Url_host(endpoint)

\* C15: without an aud of the caller the signed claims hold aud =
\* "<scheme>://<host>" of the endpoint, with the endpoint's scheme and
\* without port or path; with one, the caller's value and no other aud.
C15_Audience ==
    signed.out.ok =>
        SignedOnce(<<97, 117, 100>>,
                   IF "aud" \in DOMAIN signed.self.claims
                   THEN signed.self.claims["aud"]
                   ELSE [str |-> EndpointOrigin(signed.self.subscription_info.endpoint)])

\* C16: without an exp of the caller the signed claims hold exp = the
\* current time plus 43,200 seconds; with one, exactly one exp, the
\* caller's.
C16_Expiry ==
    signed.out.ok =>
        SignedOnce(<<101, 120, 112>>,
                   IF "exp" \in DOMAIN signed.self.claims
                   THEN signed.self.claims["exp"]
                   ELSE [num |-> signed.now + 43200])

\* A signature built with the default exp, the later clock.
C16_Witness ==
    /\ signed.out.ok
    /\ "exp" \notin DOMAIN signed.self.claims
    /\ signed.now = 1700003600
    /\ Occurrences(SignedClaims, DecimalChars(1700046800)) # {}

\* A signature built with the caller's exp and three more claims.
C16_WitnessCaller ==
    /\ signed.out.ok
    /\ DOMAIN signed.self.claims = {"aud", "exp", "foo", "sub"}

\* C17: without a sub of the caller the signed claims hold sub =
\* "mailto:example@example.com"; with one, the caller's value.
C17_Subject ==
    signed.out.ok =>
        SignedOnce(<<115, 117, 98>>,
                   IF "sub" \in DOMAIN signed.self.claims
                   THEN signed.self.claims["sub"]
                   ELSE [str |-> <<109, 97, 105, 108, 116, 111, 58, 101, 120, 97, 109, 112,
                                   108, 101, 64, 101, 120, 97, 109, 112, 108, 101, 46, 99,
                                   111, 109>>])

\* What the code signs instead: the caller's sub, or none.
SubjectOfCallerOnly ==
    signed.out.ok =>
        IF "sub" \in DOMAIN signed.self.claims
        THEN SignedOnce(<<115, 117, 98>>, signed.self.claims["sub"])
        ELSE Occurrences(SignedClaims, JsonKey(<<115, 117, 98>>)) = {}

\* What the code signs as the default aud: "https://<host>".
AudienceHttps ==
    signed.out.ok =>
        SignedOnce(<<97, 117, 100>>,
                   IF "aud" \in DOMAIN signed.self.claims
                   THEN signed.self.claims["aud"]
                   ELSE [str |-> <<104, 116, 116, 112, 115, 58, 47, 47>>
                                   \o Url_host(signed.self.subscription_info.endpoint)])

(***************************************************************************)
(* Claims about Retry-After                                                *)
(***************************************************************************)
\* A decimal number of seconds: digits, after an optional '+'.
IsDecimalSeconds(s) ==
    LET digits == IF s # <<>> /\ s[1] = 43 THEN Tail(s) ELSE s
    IN  digits # <<>> /\ \A i \in 1..Len(digits) : digits[i] \in 48..57

\* The number of seconds written.
DecimalSeconds(s) ==
    DigitsValue(StripLeadingZeros(IF s[1] = 43 THEN Tail(s) ELSE s), 0)

\* The days from 1970-01-01 to a day of the Gregorian calendar.
DaysFromCivil(y, mon, d) ==
    LET yy == IF mon <= 2 THEN y - 1 ELSE y
        era == yy \div 400
        yoe == yy - era * 400
        doy == (153 * ((mon + 9) % 12) + 2) \div 5 + d - 1
        doe == yoe * 365 + yoe \div 4 - yoe \div 100 + doy
    IN  era * 146097 + doe - 719468

\* The instant an RFC 2822 date names, in seconds since the Unix epoch.
DateInstant(s) ==
    CASE s = DateOct2015 -> DaysFromCivil(2015, 10, 21) * 86400 + 7 * 3600 + 28 * 60
      [] s = DateNov2023 -> DaysFromCivil(2023, 11, 14) * 86400 + 22 * 3600 + 14 * 60 + 40

IsRfc2822Date(s) == s \in {DateOct2015, DateNov2023}

\* What the claim says from_str returns for a date.
DateDuration(s, t) == IF DateInstant(s) > t THEN DateInstant(s) - t ELSE 0

\* C18, as stated: from_str returns Some(d) exactly for decimal seconds and
\* RFC 2822 dates: n seconds for decimal n, the date minus the current time
\* for a future date, zero for a past date; None for every other string.
C18_Original ==
    retry_call.done =>
        LET s == retry_call.header_value
        IN  /\ retry_call.out.some <=> (IsDecimalSeconds(s) \/ IsRfc2822Date(s))
            /\ IsDecimalSeconds(s) => retry_call.out = Some(DecimalSeconds(s))
            /\ IsRfc2822Date(s) => retry_call.out = Some(DateDuration(s, retry_call.at))

\* Decimal seconds that fit an unsigned 64-bit integer.
FitsU64(s) == IsDecimalSeconds(s) /\ ~PosOverflow(IF s[1] = 43 THEN Tail(s) ELSE s)

\* C18, amended: from_str returns Some(d) exactly for decimal seconds of at
\* most 2^64 - 1 and for RFC 2822 dates: n seconds for decimal n, the date
\* minus the current time for a future date, zero for a past date; None for
\* every other string, a larger decimal number among them.
C18_FromStr ==
    retry_call.done =>
        LET s == retry_call.header_value
        IN  /\ retry_call.out.some <=> (FitsU64(s) \/ IsRfc2822Date(s))
            /\ FitsU64(s) => retry_call.out = Some(DecimalSeconds(s))
            /\ IsRfc2822Date(s) => retry_call.out = Some(DateDuration(s, retry_call.at))

\* A date read twenty seconds after its instant: zero.
C18_Witness ==
    /\ retry_call.done
    /\ retry_call.header_value = DateNov2023
    /\ retry_call.at = 1700000100
    /\ retry_call.out = Some(0)

\* The same date read eighty seconds before its instant.
C18_WitnessFuture ==
    /\ retry_call.done
    /\ retry_call.header_value = DateNov2023
    /\ retry_call.out = Some(80)

\* Decimal seconds with leading zeros, and a number above u64::MAX.
C18_WitnessDecimal ==
    /\ retry_call.done
    /\ retry_call.header_value = [i \in 1..20 |-> 48] \o <<53>>
    /\ retry_call.out = Some(5)

C18_WitnessOverflow ==
    /\ retry_call.done
    /\ retry_call.header_value = AboveU64
    /\ retry_call.out = None

(***************************************************************************)
(* Claims about the error info                                             *)
(***************************************************************************)
\* The outcomes that carry an ErrorInfo.
CarriesInfo(outcome) ==
    outcome.kind \in {"Unauthorized", "EndpointNotValid", "EndpointNotFound", "BadRequest",
                      "ServerError", "Other"}

\* C19: for every non-2xx status whose outcome carries an info, the info is
\* the four fields parsed from a body that is a JSON ErrorInfo, whatever its
\* code; otherwise its code is the HTTP status, its errno 999, its error
\* "unknown error" and its message the raw body, or "-" when the body is
\* not valid UTF-8.
C19_ErrorInfo ==
    (cl_out # Pending /\ CarriesInfo(cl_out)) =>
        /\ cl_status \notin 200..299
        /\ IF cl_body.form = "error_info_json"
           THEN cl_out.info = cl_body.json
           ELSE /\ cl_out.info.code = cl_status
                /\ cl_out.info.errno = 999
                /\ cl_out.info.error = "unknown error"
                /\ cl_out.info.message = IF cl_body.form = "not_utf8" THEN "-" ELSE cl_body.text

\* A 503 whose body is the ErrorInfo of the test, with code 400.
C19_Witness ==
    /\ cl_status = 503
    /\ cl_out.kind = "ServerError"
    /\ cl_out.info = ErrorInfo(400, 103, "FooBar", "No message found")

\* A 404 whose body is not valid UTF-8.
C19_WitnessNotUtf8 ==
    /\ cl_status = 404
    /\ cl_out.kind = "EndpointNotFound"
    /\ cl_out.info = ErrorInfo(404, 999, "unknown error", "-")

\* A 410 whose body is the text "Gone".
C19_WitnessText ==
    /\ cl_status = 410
    /\ cl_out.kind = "EndpointNotValid"
    /\ cl_out.info = ErrorInfo(410, 999, "unknown error", "Gone")

(***************************************************************************)
(* Claims about concurrent sends                                           *)
(***************************************************************************)
RECURSIVE poll_to_end(_)
\* A call polled alone until it returns.
poll_to_end(call) ==
    IF call.pc = "done" THEN call ELSE poll_to_end(call_poll(<<call>>, 1))

\* What send returns when it runs alone on the client for a message, the
\* transport answering with the response at clock reading t.
send_alone(self_ref, msg, response, t) ==
    poll_to_end(call_responds(call_request(SendCall(self_ref, msg)), response, t)).result

\* What send returns alone when the transport fails.
send_alone_failed(self_ref, msg) ==
    call_transport_error(call_request(SendCall(self_ref, msg))).result

\* The requests a task handed to the client.
RequestsOf(i) == { k \in 1..Len(in_flight) : in_flight[k].from = i }

\* C20: under every interleaving of the calls' suspension points each call
\* returns what it would return alone for its own message and its own
\* response, hands the client its own request and no other, and leaves the
\* client value as it was.
C20_Independent ==
    \A i \in Senders :
        /\ calls[i].self = shared
        /\ Cardinality(RequestsOf(i)) <= 1
        /\ \A k \in RequestsOf(i) : in_flight[k].request = build_request(SenderMessage(i))
        /\ calls[i].pc = "done" =>
             calls[i].result =
                 IF delivered[i].some
                 THEN send_alone(shared, SenderMessage(i), delivered[i].v.response,
                                 delivered[i].v.at)
                 ELSE send_alone_failed(shared, SenderMessage(i))

\* Task 1 got its response before task 2 got its own and is still reading
\* a body of one byte and the cap; task 2 has returned ServerError with
\* 120 s for a body of exactly the cap.
C20_Witness ==
    /\ calls[1].pc = "reading" /\ calls[1].body_len = 1 /\ calls[1].stream # <<>>
    /\ delivered[1].v.at = 1700000000
    /\ delivered[2].some /\ delivered[2].v.at = 1700000100
    /\ calls[2].pc = "done"
    /\ calls[2].body_len = MAX_RESPONSE_SIZE
    /\ calls[2].result.kind = "ServerError"
    /\ calls[2].result.retry_after = Some(120)

\* Both tasks have returned, each with the outcome of its own response.
C20_WitnessBothDone ==
    /\ \A i \in Senders : calls[i].pc = "done" /\ delivered[i].some
    /\ calls[1].result.kind = "EndpointNotValid"
    /\ calls[2].result.kind = "ResponseTooLarge"

\* The call polled alone returns what the actions of one send return.
SendAgreesWithCall ==
    (pc = "done" /\ resp # NoResponse) => result = send_alone(client, message, resp, now)

(***************************************************************************)
(* Claims about retries                                                    *)
(***************************************************************************)
\* C21: a call of send hands the transport at most one request, that of its
\* message, and returns the outcome of that attempt: whatever the failure,
\* no second request follows and the clock is not waited on.
C21_SingleAttempt ==
    [][/\ wire' # wire => (wire = <<>> /\ wire' = <<build_request(message)>>)
       /\ now' = now
       /\ pc' = "done" => (Len(wire') = 1 /\ result' # Pending /\ pc # "start")]_vars

\* send has returned ServerError with 120 s for a 503, one request made.
C21_Witness ==
    /\ pc = "done"
    /\ resp.status = 503
    /\ result.kind = "ServerError"
    /\ result.retry_after = Some(120)
    /\ Len(wire) = 1

\* send has returned after a transport failure, one request made.
C21_WitnessTransport ==
    /\ pc = "done"
    /\ resp = NoResponse
    /\ result = Err("Unspecified")
    /\ Len(wire) = 1

(***************************************************************************)
(* Claims about the Topic header                                           *)
(***************************************************************************)
\* The values of the Topic headers of the request made of the built message.
TopicHeaders ==
    { request.headers[i][2] : i \in { j \in 1..Len(request.headers) :
                                          request.headers[j][1] = "Topic" } }

\* The value is the text of a topic of lo to 32 characters of the base64url
\* alphabet.
TopicOfLength(value, lo) ==
    \E t \in Topics :
        /\ value = ToStr(t)
        /\ Len(t) >= lo /\ Len(t) <= 32
        /\ \A i \in 1..Len(t) : t[i] \in Base64UrlAlphabet

\* C22, as stated: a Topic header of a request made of a built message has
\* 1 to 32 characters of the base64url alphabet; it is never empty.
C22_Original ==
    b_pc = "requested" =>
        \A value \in TopicHeaders : TopicOfLength(value, 1) /\ value # ""

\* C22, amended: a Topic header of a request made of a built message has 0
\* to 32 characters of the base64url alphabet; it is empty exactly when the
\* topic set on the builder is the empty string.
C22_TopicHeader ==
    b_pc = "requested" =>
        /\ \A value \in TopicHeaders : TopicOfLength(value, 0)
        /\ ("" \in TopicHeaders) <=> (builder.topic = Some(<<>>))
        /\ (TopicHeaders # {}) <=> builder.topic.some

\* A request with a Topic header of 32 letters.
C22_Witness ==
    /\ b_pc = "requested"
    /\ TopicHeaders = {ToStr(Rep(97, 32))}

\* A request with an empty Topic header.
C22_WitnessEmpty ==
    /\ b_pc = "requested"
    /\ builder.topic = Some(<<>>)
    /\ TopicHeaders = {""}

(***************************************************************************)
(* Claims about the order of build's checks                                *)
(***************************************************************************)
\* The text is base64url without padding.
ValidKeyText(s) ==
    /\ \A i \in 1..Len(s) : s[i] \in Base64UrlAlphabet
    /\ Len(s) % 4 # 1

\* The rng was asked for a key pair or a salt.
RngUsed == \E i \in 1..Len(b_crypto) : b_crypto[i] \in {"generate", "fill"}

\* build has returned for a builder with a payload.
BuiltWithPayload == b_pc \in {"built", "requested"} /\ builder.payload.some

\* C23: with a payload set, build() reports InvalidUri whenever the
\* endpoint does not parse, else InvalidTopic whenever the topic is
\* invalid, else InvalidCryptoKeys whenever p256dh or auth is not valid
\* base64url, and only then the encryptor's error; the rng is not used when
\* one of the first three steps fails.
C23_CheckOrder ==
    BuiltWithPayload =>
        IF subscription_info.endpoint = EndpointWithSpace
        THEN built = ErrOf("InvalidUri") /\ ~RngUsed
        ELSE IF builder.topic.some /\ ~TopicAllowed(builder.topic.v)
        THEN built = ErrOf("InvalidTopic") /\ ~RngUsed
        ELSE IF ~ValidKeyText(subscription_info.keys.p256dh)
                \/ ~ValidKeyText(subscription_info.keys.auth)
        THEN built = ErrOf("InvalidCryptoKeys") /\ ~RngUsed
        ELSE /\ ~built.ok => built.err \in {"PayloadTooLarge", "Unspecified", "NotImplemented"}
             /\ builder.payload.v.content.len > 3052 => built = ErrOf("PayloadTooLarge")

\* An invalid topic, a padded auth and a payload over the limit: InvalidTopic.
C23_Witness ==
    /\ BuiltWithPayload
    /\ subscription_info = SubscriptionInfo_new(TestEndpoint, TestP256dh, TestAuth \o <<61, 61>>)
    /\ builder.topic = Some(Rep(97, 33))
    /\ builder.payload.v.content.len = 3053
    /\ built = ErrOf("InvalidTopic")
    /\ b_crypto = <<>>

\* An endpoint that does not parse, an invalid topic and a padded auth:
\* InvalidUri.
C23_WitnessUri ==
    /\ BuiltWithPayload
    /\ subscription_info = SubscriptionInfo_new(EndpointWithSpace, TestP256dh, TestAuth \o <<61, 61>>)
    /\ builder.topic = Some(Rep(97, 33))
    /\ built = ErrOf("InvalidUri")

\* A p256dh that is no base64url and a payload over the limit:
\* InvalidCryptoKeys.
C23_WitnessKeys ==
    /\ BuiltWithPayload
    /\ subscription_info = SubscriptionInfo_new(TestEndpoint, <<33>> \o TestP256dh, TestAuth)
    /\ builder.payload.v.content.len = 3053
    /\ built = ErrOf("InvalidCryptoKeys")

(***************************************************************************)
(* Claims about the decoding of the subscription keys                      *)
(***************************************************************************)
\* build has returned, the endpoint parsed and the topic, if any, allowed.
BuiltPastTopic ==
    /\ b_pc \in {"built", "requested"}
    /\ subscription_info.endpoint # EndpointWithSpace
    /\ builder.topic.some => TopicAllowed(builder.topic.v)

InvalidKeys ==
    \/ ~ValidKeyText(subscription_info.keys.p256dh)
    \/ ~ValidKeyText(subscription_info.keys.auth)

\* C24, as stated: in every builder state, with or without a payload,
\* build() decodes p256dh and auth as its third step and fails with
\* InvalidCryptoKeys when one of them is not valid base64url.
C24_Original ==
    (BuiltPastTopic /\ InvalidKeys) => built = ErrOf("InvalidCryptoKeys")

\* C24, amended: with a payload set, build() decodes p256dh and auth as its
\* third step and fails with InvalidCryptoKeys exactly on a decode error;
\* with no payload set it decodes neither and succeeds, whatever the keys.
C24_KeysDecoded ==
    BuiltPastTopic =>
        IF builder.payload.some
        THEN /\ (built = ErrOf("InvalidCryptoKeys")) <=> InvalidKeys
             /\ b_crypto # <<>> /\ b_crypto[1] = "decode"
        ELSE built.ok /\ b_crypto = <<>>

\* A payload and a padded auth: InvalidCryptoKeys after both decodings.
C24_Witness ==
    /\ BuiltPastTopic
    /\ builder.payload.some
    /\ subscription_info.keys.auth = TestAuth \o <<61, 61>>
    /\ built = ErrOf("InvalidCryptoKeys")
    /\ b_crypto = <<"decode", "decode">>

\* No payload and a padded auth: a message.
C24_WitnessNoPayload ==
    /\ BuiltPastTopic
    /\ ~builder.payload.some
    /\ subscription_info.keys.auth = TestAuth \o <<61, 61>>
    /\ built.ok

(***************************************************************************)
(* Claims about PEM inputs                                                 *)
(***************************************************************************)
\* The sections of the input that hold a private key.
KeySections ==
    { i \in 1..Len(pem_input.sections) :
        pem_input.sections[i].tag \in {"PRIVATE KEY", "EC PRIVATE KEY"} }

\* The sections of one tag.
SectionsTagged(tag) ==
    { i \in 1..Len(pem_input.sections) : pem_input.sections[i].tag = tag }

FirstOf(positions) == CHOOSE i \in positions : \A j \in positions : i <= j

\* C25: of a PEM input with several sections read_pem yields the key of the
\* first section, in document order, tagged PRIVATE KEY or EC PRIVATE KEY,
\* whatever the other sections are.
C25_FirstSectionWins ==
    (pem_out # NoResult /\ pem_input.wellformed /\ KeySections # {}) =>
        pem_out = OkOf(pem_input.sections[FirstOf(KeySections)].key)

\* What read_pem does: the SEC1 reader is handed the input when any section
\* is tagged EC PRIVATE KEY, the PKCS#8 reader when none is and one is
\* tagged PRIVATE KEY; each yields the key of the first section of its tag
\* or fails.
Sec1BeforePkcs8 ==
    (pem_out # NoResult /\ pem_input.wellformed) =>
        IF SectionsTagged("EC PRIVATE KEY") # {}
        THEN pem_out \in { OkOf(pem_input.sections[FirstOf(SectionsTagged("EC PRIVATE KEY"))].key),
                            ErrOf("InvalidCryptoKeys") }
        ELSE IF SectionsTagged("PRIVATE KEY") # {}
        THEN pem_out \in { OkOf(pem_input.sections[FirstOf(SectionsTagged("PRIVATE KEY"))].key),
                            ErrOf("InvalidCryptoKeys") }
        ELSE pem_out = ErrOf("MissingCryptoKeys")

\* A PRIVATE KEY section followed by an EC PRIVATE KEY section of another
\* key has been read, and the result is not the PKCS#8 key.
MixedInputRead ==
    /\ pem_input.sections = << [tag |-> "PRIVATE KEY", key |-> "vapid_test_key"],
                               [tag |-> "EC PRIVATE KEY", key |-> "second_key"] >>
    /\ pem_out # NoResult
    /\ pem_out # OkOf("vapid_test_key")

(***************************************************************************)
(* Claims about the aesgcm record                                          *)
(***************************************************************************)
\* encrypt has returned an aesgcm payload.
AesGcmEncrypted == enc_pc = "encrypt" /\ enc_out.ok

\* The request build_request makes of a message that carries the payload.
RequestOfPayload(payload) ==
    build_request(WebPushMessage("https://fcm.googleapis.com/fcm/send/x", 0, None, None,
                                 Some(payload)))

C26_WitnessEmpty ==
    AesGcmEncrypted /\ enc_content.len = 0 /\ enc_out.v.content.sealed.padding = <<11, 236>>

C26_WitnessFull ==
    AesGcmEncrypted /\ enc_content.len = 3052 /\ enc_out.v.content.sealed.zeros = 0

(***************************************************************************)
(* Claims about the body being read before the status is classified        *)
(***************************************************************************)
\* send has returned for a response (not for a transport error).
Answered == pc = "done" /\ resp # NoResponse

\* A read of the response's body stream fails.
ReadFails(chunks) == \E i \in 1..Len(chunks) : chunks[i] = ChunkError

\* The body send was offered is complete, and longer than the cap.
OverCap(chunks) == ~ReadFails(chunks) /\ TotalBytes(chunks) > MAX_RESPONSE_SIZE

\* C27: the body is read, and the cap and the read errors applied, before
\* the status is classified.  A 2xx response yields Ok only when the whole
\* body was read without error and has at most 65,536 bytes; a 2xx response
\* with a longer body yields ResponseTooLarge; a 2xx response whose body
\* read fails yields an error and never Ok.
C27_BodyBeforeStatus ==
    (Answered /\ resp.status \in 200..299) =>
        /\ result = Ok =>
              /\ ~ReadFails(resp.chunks)
              /\ stream = <<>>
              /\ body_len = TotalBytes(resp.chunks)
              /\ body_len <= MAX_RESPONSE_SIZE
              /\ parsed = Ok
        /\ OverCap(resp.chunks) => result = Err("ResponseTooLarge")
        /\ ReadFails(resp.chunks) =>
              /\ result \in {Err("ResponseTooLarge"), From_hyper_Error, From_IoError}
              /\ parsed = Pending
        /\ result \in {Err("ResponseTooLarge"), From_hyper_Error, From_IoError} =>
              parsed = Pending
        /\ (~ReadFails(resp.chunks) /\ ~OverCap(resp.chunks)) => result = Ok

\* A 200 whose body exceeds the cap was answered with ResponseTooLarge, on
\* the client of the name.
C27_Witness ==
    /\ Answered /\ resp.status = 200 /\ client = "isahc"
    /\ OverCap(resp.chunks)
    /\ result = Err("ResponseTooLarge")

C27_WitnessHyper ==
    /\ Answered /\ resp.status = 200 /\ IsHyper
    /\ OverCap(resp.chunks)
    /\ result = Err("ResponseTooLarge")

\* A 200 whose body read failed was answered with the read's error.
C27_WitnessReadError ==
    /\ Answered /\ resp.status = 200
    /\ ReadFails(resp.chunks)
    /\ result \in {From_hyper_Error, From_IoError}

\* A 200 with a body of exactly the cap was answered with Ok.
C27_WitnessOk ==
    /\ Answered /\ resp.status = 200
    /\ body_len = MAX_RESPONSE_SIZE
    /\ result = Ok

(***************************************************************************)
(* Claims about Retry-After on responses that are no server error          *)
(***************************************************************************)
\* send has returned what it made of the classifier's result.
Classified == Answered /\ parsed # Pending

\* C28: for every response whose status is not 5xx, send returns exactly
\* the classifier's result, and a Retry-After header has no effect on it: a
\* 429 with Retry-After yields Other(info) without a retry duration, a 2xx
\* with Retry-After yields Ok.
C28_RetryAfterOnlyOn5xx ==
    (Classified /\ resp.status \notin 500..599) =>
        /\ result = parsed
        /\ result = parse_response(resp.status, accumulated_body(resp, body_len))
        /\ result.retry_after = None
        /\ resp.status = 429 =>
              result = ErrWithInfo("Other", response_info(429, accumulated_body(resp, body_len)))
        /\ resp.status \in 200..299 => result = Ok

\* A 429 with Retry-After: 120 was answered with Other and no duration,
\* although send had read 120 seconds off the header.
C28_Witness ==
    /\ Classified /\ resp.status = 429
    /\ resp.retry_after_header = Some(<<49, 50, 48>>)
    /\ retry_after = Some(120)
    /\ result.kind = "Other" /\ result.retry_after = None

\* A 200 with Retry-After: 120 was answered with Ok.
C28_WitnessOk ==
    /\ Classified /\ resp.status = 200
    /\ retry_after = Some(120)
    /\ result = Ok

(***************************************************************************)
(* Claims about endpoints the signature builder cannot use                 *)
(***************************************************************************)
\* build() was called on a builder of the endpoint.
BuildCalled == signed.out # NoResult

\* C29: VapidSignatureBuilder::build() returns a Result for every endpoint
\* and never panics: an endpoint that does not parse gives Err(InvalidUri),
\* one that parses but has no host gives an Err.
C29_NeverPanics ==
    BuildCalled =>
        LET endpoint == signed.self.subscription_info.endpoint
        IN  /\ signed.out # Panic
            /\ ~Uri_parse(endpoint).some => signed.out = ErrOf("InvalidUri")
            /\ (Uri_parse(endpoint).some /\ ~Url_has_host(endpoint)) => ~signed.out.ok

\* What build() does with an endpoint that parses and has no host: it
\* panics unless the caller added an aud, and then it signs.
HostlessEndpoint ==
    (BuildCalled /\ Uri_parse(signed.self.subscription_info.endpoint).some
                /\ ~Url_has_host(signed.self.subscription_info.endpoint)) =>
        IF "aud" \in DOMAIN signed.self.claims THEN signed.out.ok ELSE signed.out = Panic

\* An endpoint that does not parse gives Err(InvalidUri), with and without
\* claims.
UnparsableEndpoint ==
    (BuildCalled /\ ~Uri_parse(signed.self.subscription_info.endpoint).some) =>
        signed.out = ErrOf("InvalidUri")

\* build() of "/push" without an aud has panicked.
PathOnlyPanicked ==
    /\ BuildCalled
    /\ signed.self.subscription_info.endpoint = PathOnlyEndpoint
    /\ signed.out = Panic

(***************************************************************************)
(* Claims about the nonce                                                  *)
(***************************************************************************)
\* The fill an advance works on: the last one before call i (0: none).
LastFill(i) ==
    LET fills == { j \in 1..(i - 1) : nonce_log[j].op = "fill" }
    IN  IF fills = {} THEN 0 ELSE CHOOSE j \in fills : \A k \in fills : k <= j

\* An advance between the fill and call i has returned a nonce.
UsedSince(fill, i) ==
    \E j \in (fill + 1)..(i - 1) : nonce_log[j].op = "advance" /\ nonce_log[j].out.ok

\* C30: an EceNonce is used once.  After fill(n) the first advance() returns
\* the nonce made of n, and every later advance() without a fill in between
\* returns Err; advance() returns Err when the stored nonce is longer than
\* 12 bytes; aes_gcm only ever passes a nonce of 12 bytes, which its one
\* advance() returns.
C30_SingleUse ==
    \A i \in 1..Len(nonce_log) :
        LET fill == LastFill(i)
            n == nonce_log[fill].nonce
        IN  /\ (nonce_log[i].op = "advance" /\ fill > 0) =>
                  IF UsedSince(fill, i) \/ Len(n) > 12
                  THEN nonce_log[i].out = ErrOf("Unspecified")
                  ELSE /\ nonce_log[i].out.ok
                       /\ Len(nonce_log[i].out.v) = 12
                       /\ SubSeq(nonce_log[i].out.v, 1, Len(n)) = n
            /\ nonce_log[i].by = "aes_gcm" =>
                  /\ Len(nonce_log[i].nonce) = 12
                  /\ nonce_log[i].op = "advance" => nonce_log[i].out = OkOf(nonce_log[i].nonce)

\* A fill of 12 bytes, the advance that returned them, and a second
\* advance that returned Err.
C30_Witness ==
    /\ Len(nonce_log) >= 3
    /\ nonce_log[1].op = "fill" /\ nonce_log[1].nonce = [i \in 1..12 |-> i]
    /\ nonce_log[2].op = "advance" /\ nonce_log[2].out = OkOf([i \in 1..12 |-> i])
    /\ nonce_log[3].op = "advance" /\ nonce_log[3].out = ErrOf("Unspecified")

\* A nonce of 13 bytes was refused.
C30_WitnessTooLong ==
    /\ Len(nonce_log) >= 2
    /\ nonce_log[1].op = "fill" /\ Len(nonce_log[1].nonce) = 13
    /\ nonce_log[2].op = "advance" /\ nonce_log[2].out = ErrOf("Unspecified")

\* aes_gcm has sealed, and the nonce was filled and used again after it.
C30_WitnessSealed ==
    /\ Len(nonce_log) = 4
    /\ nonce_log[2].by = "aes_gcm" /\ nonce_log[2].out.ok
    /\ nonce_log[3].op = "fill"
    /\ nonce_log[4].op = "advance" /\ nonce_log[4].out.ok

====
